---- MODULE Spec2Model ----
(***************************************************************************)
(* A model of the ABC-to-structured-tune pipeline of fiddlemachine:        *)
(*   backend/section.py     detect_sections and its three strategies       *)
(*   backend/abc_parser.py  _assign_notes_to_sections,                     *)
(*                          _expand_playback_notes                         *)
(* Texts are sequences of one-character strings.  Times are integers, in   *)
(* ticks: one beat (one quarter note) is TicksPerBeat ticks.               *)
(***************************************************************************)
EXTENDS Integers, Sequences, FiniteSets, TLC

VARIABLES
    pc,                  \* position of the call being modelled
    abc,                 \* detect_sections: the ABC text
    section_info,        \* detect_sections' result, the assigner's boundaries
    all_notes,           \* the assigner's note events
    time_sig,            \* the assigner's time signature string
    section_beat_ranges, \* the assigner's local list of (start_beat, end_beat)
    sections,            \* the assigner's result, the expander's input
    expanded,            \* the expander's result
    walk,                \* _sections_from_repeats: its tokens, index and locals
    score,               \* parse_abc: the elements of the engine's parsed score
    tune,                \* parse_abc: the metadata of the Tune it returns
    tune_has_pickup,     \* the assigner's local has_pickup
    check_orders,        \* the assigner's local check_order of each iteration
    tunes,               \* database.py: the rows of the table tunes, by tune_id
    tune_list_cache,     \* api.py: the module-level _tune_list_cache
    tune_files,          \* database.py: the *.abc files of resources/tunes
    requests             \* api.py: the number of requests handled so far

vars == <<pc, abc, section_info, all_notes, time_sig, section_beat_ranges,
          sections, expanded, walk, score, tune, tune_has_pickup, check_orders,
          tunes, tune_list_cache, tune_files, requests>>

----------------------------------------------------------------------------
(* Bounds of the model *)

\* longest text, in atoms of TextAtoms
MaxAtoms == 4

\* the assigner's note events: at most MaxNotes of them
MaxNotes == 2

\* the expander's sections: at most MaxSectionNotes notes each
MaxSectionNotes == 2

\* the music lines of the token-by-token walk: at most MaxWalkAtoms atoms
MaxWalkAtoms == 5

\* the texts of the metadata specification: at most MaxHeaderLines lines
MaxHeaderLines == 3

\* the melodies of the second assigner specification: at most MaxTuneNotes
\* notes, boundaries starting at measures up to MaxTuneMeasure
MaxTuneNotes == 4
MaxTuneMeasure == 6

----------------------------------------------------------------------------
(* Generic helpers on sequences *)

RECURSIVE Flatten(_)
Flatten(ss) == IF ss = <<>> THEN <<>> ELSE Head(ss) \o Flatten(Tail(ss))

\* s[i..] starts with the sequence p
StartsWithAt(s, i, p) ==
    /\ i + Len(p) - 1 <= Len(s)
    /\ \A k \in 1..Len(p) : s[i + k - 1] = p[k]

SeqsUpTo(S, n) == UNION { [1..k -> S] : k \in 0..n }

----------------------------------------------------------------------------
(* Characters and strings of the texts (backend/section.py) *)

UpperCase ==
    {"A", "B", "C", "D", "E", "F", "G", "H", "I", "J", "K", "L", "M", "N", "O",
     "P", "Q", "R", "S", "T", "U", "V", "W", "X", "Y", "Z"}
WhiteSpace == {" ", "\n"}

\* the barline-family tokens, as the code spells them
TokStart == <<"|", ":">>
TokEnd == <<":", "|">>
TokEndStart == <<":", "|", ":">>
TokEndStart2 == <<":", "|", "|", ":">>
TokBar == <<"|">>
TokDouble == <<"|", "|">>

EndTokens == {TokEnd, TokEndStart2, TokEndStart}
BarlineTokens == {TokBar, TokDouble, TokStart, TokEnd, TokEndStart2, TokEndStart}

\* str.strip()
RECURSIVE LStrip(_)
LStrip(s) == IF s # <<>> /\ Head(s) \in WhiteSpace THEN LStrip(Tail(s)) ELSE s

RECURSIVE RStrip(_)
RStrip(s) ==
    IF s # <<>> /\ s[Len(s)] \in WhiteSpace
    THEN RStrip(SubSeq(s, 1, Len(s) - 1)) ELSE s

Strip(s) == RStrip(LStrip(s))

\* abc.split('\n')
RECURSIVE SplitLinesFrom(_, _, _)
SplitLinesFrom(s, cur, acc) ==
    IF s = <<>> THEN Append(acc, cur)
    ELSE IF Head(s) = "\n" THEN SplitLinesFrom(Tail(s), <<>>, Append(acc, cur))
    ELSE SplitLinesFrom(Tail(s), Append(cur, Head(s)), acc)

SplitLines(s) == SplitLinesFrom(s, <<>>, <<>>)

\* re.match(r'^[A-Z]:', stripped)
IsHeaderLine(stripped) ==
    Len(stripped) >= 2 /\ stripped[1] \in UpperCase /\ stripped[2] = ":"

\* ' '.join(music_lines)
RECURSIVE JoinSpace(_)
JoinSpace(ls) ==
    IF ls = <<>> THEN <<>>
    ELSE IF Len(ls) = 1 THEN ls[1]
    ELSE ls[1] \o <<" ">> \o JoinSpace(Tail(ls))

\* the music lines of detect_sections: stripped, non-empty, not a header
RECURSIVE MusicLines(_)
MusicLines(ls) ==
    IF ls = <<>> THEN <<>>
    ELSE LET stripped == Strip(Head(ls)) IN
         IF stripped # <<>> /\ ~IsHeaderLine(stripped)
         THEN <<stripped>> \o MusicLines(Tail(ls))
         ELSE MusicLines(Tail(ls))

MusicOf(text) == JoinSpace(MusicLines(SplitLines(text)))

----------------------------------------------------------------------------
(* detect_sections and its three strategies (backend/section.py) *)

\* length of the match of r'(\:\|\|?\:|\|\:|\:\||\|\||\|)' at position i,
\* alternatives tried in the pattern's order; 0 when none matches there
MatchLenAt(s, i) ==
    IF StartsWithAt(s, i, TokEndStart2) THEN 4
    ELSE IF StartsWithAt(s, i, TokEndStart) THEN 3
    ELSE IF StartsWithAt(s, i, TokStart) THEN 2
    ELSE IF StartsWithAt(s, i, TokEnd) THEN 2
    ELSE IF StartsWithAt(s, i, TokDouble) THEN 2
    ELSE IF StartsWithAt(s, i, TokBar) THEN 1
    ELSE 0

\* re.split with a capturing group: text, marker, text, ..., marker, text
RECURSIVE SplitTokensFrom(_, _, _, _)
SplitTokensFrom(s, i, cur, acc) ==
    IF i > Len(s) THEN Append(acc, cur)
    ELSE LET n == MatchLenAt(s, i) IN
         IF n > 0
         THEN SplitTokensFrom(s, i + n, <<>>, acc \o <<cur, SubSeq(s, i, i + n - 1)>>)
         ELSE SplitTokensFrom(s, i + 1, Append(cur, s[i]), acc)

SplitTokens(music) == SplitTokensFrom(music, 1, <<>>, <<>>)

\* list(re.finditer(r'\[P:([AB])\]', abc)): the letters matched, in text order
PartLetters == {"A", "B"}

IsPartMarkerAt(s, i) ==
    /\ i + 4 <= Len(s)
    /\ s[i] = "[" /\ s[i + 1] = "P" /\ s[i + 2] = ":"
    /\ s[i + 3] \in PartLetters
    /\ s[i + 4] = "]"

RECURSIVE PartMatchesFrom(_, _)
PartMatchesFrom(s, i) ==
    IF i > Len(s) THEN <<>>
    ELSE IF IsPartMarkerAt(s, i) THEN <<s[i + 3]>> \o PartMatchesFrom(s, i + 5)
    ELSE PartMatchesFrom(s, i + 1)

part_matches(text) == PartMatchesFrom(text, 1)

\* _sections_from_part_markers: one section of 4 measures per match
\* (a variant that counts the first measure twice: end = start + 4)
RECURSIVE PartSectionsLongFrom(_, _, _)
PartSectionsLongFrom(matches, i, secs) ==
    IF i > Len(matches) THEN secs
    ELSE LET start == IF i = 1 THEN 1 ELSE secs[Len(secs)].end_measure + 1
             end == start + 4
         IN PartSectionsLongFrom(matches, i + 1,
                Append(secs, [name |-> matches[i], start_measure |-> start,
                              end_measure |-> end, repeat |-> 2]))

sections_from_part_markers_long(matches) == PartSectionsLongFrom(matches, 1, <<>>)

RECURSIVE PartSectionsFrom(_, _, _)
PartSectionsFrom(matches, i, secs) ==
    IF i > Len(matches) THEN secs
    ELSE LET start == IF i = 1 THEN 1 ELSE secs[Len(secs)].end_measure + 1
             end == start + 3
         IN PartSectionsFrom(matches, i + 1,
                Append(secs, [name |-> matches[i], start_measure |-> start,
                              end_measure |-> end, repeat |-> 2]))

sections_from_part_markers(matches) == PartSectionsFrom(matches, 1, <<>>)

\* (a variant that names every section after the second plain 'C')
SectionNamePlainC(section_count) ==
    IF section_count = 1 THEN "A"
    ELSE IF section_count = 2 THEN "B"
    ELSE "C"

\* name = 'A' if section_count == 1 else 'B' if section_count == 2
\*        else f'C{section_count-2}'
SectionName(section_count) ==
    IF section_count = 1 THEN "A"
    ELSE IF section_count = 2 THEN "B"
    ELSE "C" \o ToString(section_count - 2)

\* the look-ahead of lines 97-105: is there content before the next barline?
RECURSIVE ContentBeforeNextBar(_, _)
ContentBeforeNextBar(tokens, j) ==
    IF j > Len(tokens) THEN FALSE
    ELSE LET next_token == Strip(tokens[j]) IN
         IF next_token = <<>> THEN ContentBeforeNextBar(tokens, j + 1)
         ELSE next_token \notin BarlineTokens

\* the locals of _sections_from_repeats before its loop
WalkInit ==
    [sections |-> <<>>, current_measure |-> 1, section_start_measure |-> 1,
     section_count |-> 0, just_ended_section |-> FALSE,
     next_section_has_pickup |-> FALSE]

\* (a variant in which |: advances the measure counter as well)
WalkStepCountingStart(st, tokens, i) ==
    LET token == Strip(tokens[i]) IN
    IF token = <<>> THEN st
    ELSE IF token = TokStart THEN
        [st EXCEPT !.section_start_measure =
                       IF ~st.just_ended_section THEN st.current_measure ELSE @,
                   !.just_ended_section = FALSE,
                   !.current_measure = @ + 1]
    ELSE IF token \in EndTokens THEN
        LET count == st.section_count + 1
            pickup == IF token \in {TokEndStart2, TokEndStart}
                      THEN ContentBeforeNextBar(tokens, i + 1)
                      ELSE FALSE
        IN [sections |-> Append(st.sections,
                [name |-> SectionName(count),
                 start_measure |-> st.section_start_measure,
                 end_measure |-> st.current_measure,
                 repeat |-> 2,
                 next_has_pickup |-> pickup]),
            current_measure |-> st.current_measure + 1,
            section_start_measure |-> st.current_measure + 1,
            section_count |-> count,
            just_ended_section |-> TRUE,
            next_section_has_pickup |-> pickup]
    ELSE IF token \in {TokBar, TokDouble} THEN
        [st EXCEPT !.current_measure = @ + 1]
    ELSE st

\* (a variant in which every |: resets the section-start pointer)
WalkStepAlwaysReset(st, tokens, i) ==
    LET token == Strip(tokens[i]) IN
    IF token = <<>> THEN st
    ELSE IF token = TokStart THEN
        [st EXCEPT !.section_start_measure = st.current_measure,
                   !.just_ended_section = FALSE]
    ELSE IF token \in EndTokens THEN
        LET count == st.section_count + 1
            pickup == IF token \in {TokEndStart2, TokEndStart}
                      THEN ContentBeforeNextBar(tokens, i + 1)
                      ELSE FALSE
        IN [sections |-> Append(st.sections,
                [name |-> SectionName(count),
                 start_measure |-> st.section_start_measure,
                 end_measure |-> st.current_measure,
                 repeat |-> 2,
                 next_has_pickup |-> pickup]),
            current_measure |-> st.current_measure + 1,
            section_start_measure |-> st.current_measure + 1,
            section_count |-> count,
            just_ended_section |-> TRUE,
            next_section_has_pickup |-> pickup]
    ELSE IF token \in {TokBar, TokDouble} THEN
        [st EXCEPT !.current_measure = @ + 1]
    ELSE st

\* (a variant in which the next section starts in the bar of the closing token)
WalkStepSharedBar(st, tokens, i) ==
    LET token == Strip(tokens[i]) IN
    IF token = <<>> THEN st
    ELSE IF token = TokStart THEN
        [st EXCEPT !.section_start_measure =
                       IF ~st.just_ended_section THEN st.current_measure ELSE @,
                   !.just_ended_section = FALSE]
    ELSE IF token \in EndTokens THEN
        LET count == st.section_count + 1
            pickup == IF token \in {TokEndStart2, TokEndStart}
                      THEN ContentBeforeNextBar(tokens, i + 1)
                      ELSE FALSE
        IN [sections |-> Append(st.sections,
                [name |-> SectionName(count),
                 start_measure |-> st.section_start_measure,
                 end_measure |-> st.current_measure,
                 repeat |-> 2,
                 next_has_pickup |-> pickup]),
            current_measure |-> st.current_measure + 1,
            section_start_measure |-> st.current_measure,
            section_count |-> count,
            just_ended_section |-> TRUE,
            next_section_has_pickup |-> pickup]
    ELSE IF token \in {TokBar, TokDouble} THEN
        [st EXCEPT !.current_measure = @ + 1]
    ELSE st

\* one iteration of the loop of _sections_from_repeats, on tokens[i]
WalkStep(st, tokens, i) ==
    LET token == Strip(tokens[i]) IN
    IF token = <<>> THEN st
    ELSE IF token = TokStart THEN
        [st EXCEPT !.section_start_measure =
                       IF ~st.just_ended_section THEN st.current_measure ELSE @,
                   !.just_ended_section = FALSE]
    ELSE IF token \in EndTokens THEN
        LET count == st.section_count + 1
            pickup == IF token \in {TokEndStart2, TokEndStart}
                      THEN ContentBeforeNextBar(tokens, i + 1)
                      ELSE FALSE
        IN [sections |-> Append(st.sections,
                [name |-> SectionName(count),
                 start_measure |-> st.section_start_measure,
                 end_measure |-> st.current_measure,
                 repeat |-> 2,
                 next_has_pickup |-> pickup]),
            current_measure |-> st.current_measure + 1,
            section_start_measure |-> st.current_measure + 1,
            section_count |-> count,
            just_ended_section |-> TRUE,
            next_section_has_pickup |-> pickup]
    ELSE IF token \in {TokBar, TokDouble} THEN
        [st EXCEPT !.current_measure = @ + 1]
    ELSE st

RECURSIVE WalkFrom(_, _, _)
WalkFrom(st, tokens, i) ==
    IF i > Len(tokens) THEN st
    ELSE WalkFrom(WalkStep(st, tokens, i), tokens, i + 1)

sections_from_repeats(music) ==
    WalkFrom(WalkInit, SplitTokens(music), 1).sections

\* len(re.findall(r'\|', music))
CountBars(music) == Cardinality({i \in 1..Len(music) : music[i] = "|"})

Max(a, b) == IF a >= b THEN a ELSE b

\* the floor of the half split's total_measures
MinMeasures == 8

\* (a variant without the floor of 8 measures)
sections_from_half_split_no_floor(music) ==
    LET total_measures == CountBars(music)
        mid == total_measures \div 2
    IN << [name |-> "A", start_measure |-> 1, end_measure |-> mid, repeat |-> 1],
          [name |-> "B", start_measure |-> mid + 1,
           end_measure |-> total_measures, repeat |-> 1] >>

sections_from_half_split(music) ==
    LET total_measures == Max(CountBars(music), MinMeasures)
        mid == total_measures \div 2
    IN << [name |-> "A", start_measure |-> 1, end_measure |-> mid, repeat |-> 1],
          [name |-> "B", start_measure |-> mid + 1,
           end_measure |-> total_measures, repeat |-> 1] >>

\* (a variant that tries the repeat markers before the part markers)
detect_sections_repeats_first(text) ==
    LET music == MusicOf(text)
        matches == part_matches(text)
        secs == sections_from_repeats(music)
    IN IF secs # <<>> THEN secs
       ELSE IF Len(matches) >= 2 THEN sections_from_part_markers(matches)
       ELSE sections_from_half_split(music)

\* (a variant without the fallback: no repeat markers, no sections)
detect_sections_without_fallback(text) ==
    LET music == MusicOf(text)
        matches == part_matches(text)
    IN IF Len(matches) >= 2 THEN sections_from_part_markers(matches)
       ELSE sections_from_repeats(music)

detect_sections(text) ==
    LET music == MusicOf(text)
        matches == part_matches(text)
    IN IF Len(matches) >= 2 THEN sections_from_part_markers(matches)
       ELSE LET secs == sections_from_repeats(music) IN
            IF secs # <<>> THEN secs
            ELSE sections_from_half_split(music)

----------------------------------------------------------------------------
(* The texts detect_sections is run on *)

AtomBar == <<"|">>
AtomHeader == <<"K", ":">>
AtomNote == <<"d">>
AtomNewline == <<"\n">>
AtomSpace == <<" ">>
AtomPartA == <<"[", "P", ":", "A", "]">>
AtomPartB == <<"[", "P", ":", "B", "]">>
AtomPartC == <<"[", "P", ":", "C", "]">>

TextAtoms ==
    {AtomBar, TokStart, TokEnd, TokEndStart, AtomNote, AtomNewline, AtomSpace,
     AtomHeader, AtomPartA, AtomPartB, AtomPartC}

NoNotes == <<>>
NoRanges == <<>>
NoSections == <<>>
NoWalk == <<>>
NoScore == <<>>
NoTune == <<>>
NoOrders == <<>>
\* an empty table; the cache before it is populated, a populated cache being
\* <<list>>; an empty directory
NoRows == <<>>
None == <<>>
NoFiles == <<>>

InitDetect ==
    /\ pc = "detect"
    /\ \E atoms \in SeqsUpTo(TextAtoms, MaxAtoms) : abc = Flatten(atoms)
    /\ section_info = NoSections
    /\ all_notes = NoNotes
    /\ time_sig = <<>>
    /\ section_beat_ranges = NoRanges
    /\ sections = NoSections
    /\ expanded = NoSections
    /\ walk = NoWalk
    /\ score = NoScore
    /\ tune = NoTune
    /\ tune_has_pickup = FALSE
    /\ check_orders = NoOrders
    /\ tunes = NoRows
    /\ tune_list_cache = None
    /\ tune_files = NoFiles
    /\ requests = 0

\* section_info = detect_sections(abc_content)       (abc_parser.py line 34)
DetectSections ==
    /\ pc = "detect"
    /\ section_info' = detect_sections(abc)
    /\ pc' = "detected"
    /\ UNCHANGED <<abc, all_notes, time_sig, section_beat_ranges, sections, expanded,
                   walk, score, tune, tune_has_pickup, check_orders,
                   tunes, tune_list_cache, tune_files, requests>>

NextDetect == DetectSections

SpecDetect == InitDetect /\ [][NextDetect]_vars

----------------------------------------------------------------------------
(* detect_sections on a text without part markers, with the loop of         *)
(* _sections_from_repeats taken one token at a time                         *)

\* the pieces of a music line: each barline-family token, and a note,
\* followed by a blank
WalkAtoms ==
    { <<"|", " ">>, <<"|", "|", " ">>, <<"|", ":", " ">>, <<":", "|", " ">>,
      <<":", "|", ":", " ">>, <<":", "|", "|", ":", " ">>, <<"d", " ">> }

\* lines 17-35 and 64-75 of section.py: the text has fewer than two part
\* markers, the music is tokenized and the locals have their first values
InitRepeats ==
    /\ pc = "walk"
    /\ \E atoms \in SeqsUpTo(WalkAtoms, MaxWalkAtoms) : abc = Flatten(atoms)
    /\ section_info = NoSections
    /\ all_notes = NoNotes
    /\ time_sig = <<>>
    /\ section_beat_ranges = NoRanges
    /\ sections = NoSections
    /\ expanded = NoSections
    /\ \E music \in {MusicOf(abc)} :
         walk = [tokens |-> SplitTokens(music), i |-> 1, locals |-> WalkInit]
    /\ score = NoScore
    /\ tune = NoTune
    /\ tune_has_pickup = FALSE
    /\ check_orders = NoOrders
    /\ tunes = NoRows
    /\ tune_list_cache = None
    /\ tune_files = NoFiles
    /\ requests = 0

\* one iteration of `for i, token in enumerate(tokens)` (lines 77-121)
WalkToken ==
    /\ pc = "walk"
    /\ walk.i <= Len(walk.tokens)
    /\ walk' = [walk EXCEPT !.locals = WalkStep(@, walk.tokens, walk.i),
                             !.i = @ + 1]
    /\ UNCHANGED <<pc, abc, section_info, all_notes, time_sig, section_beat_ranges,
                   sections, expanded, score, tune, tune_has_pickup, check_orders,
                   tunes, tune_list_cache, tune_files, requests>>

\* the loop is over: lines 124-127, then lines 36-40 of detect_sections
WalkReturn ==
    /\ pc = "walk"
    /\ walk.i > Len(walk.tokens)
    /\ section_info' = IF walk.locals.sections # <<>>
                       THEN walk.locals.sections
                       ELSE sections_from_half_split(MusicOf(abc))
    /\ pc' = "detected"
    /\ UNCHANGED <<abc, all_notes, time_sig, section_beat_ranges, sections, expanded,
                   walk, score, tune, tune_has_pickup, check_orders,
                   tunes, tune_list_cache, tune_files, requests>>

NextRepeats == WalkToken \/ WalkReturn

SpecRepeats == InitRepeats /\ [][NextRepeats]_vars

----------------------------------------------------------------------------
(* Properties of detect_sections *)

HasBarline(text) == \E i \in 1..Len(text) : text[i] = "|"

\* the end-repeat tokens of a music string, counted on its token list
EndTokenCount(music) ==
    LET tokens == SplitTokens(music)
    IN Cardinality({i \in 1..Len(tokens) : Strip(tokens[i]) \in EndTokens})

\* the letters of the inline markers [P:X] of a text with X in letters, in order
RECURSIVE MarkerLettersFrom(_, _, _)
MarkerLettersFrom(s, i, letters) ==
    IF i + 4 > Len(s) THEN <<>>
    ELSE IF /\ SubSeq(s, i, i + 2) = <<"[", "P", ":">>
            /\ s[i + 3] \in letters
            /\ s[i + 4] = "]"
         THEN <<s[i + 3]>> \o MarkerLettersFrom(s, i + 5, letters)
         ELSE MarkerLettersFrom(s, i + 1, letters)

MarkerLetters(text, letters) == MarkerLettersFrom(text, 1, letters)

FallbackAB ==
    << [name |-> "A", start_measure |-> 1, end_measure |-> 4, repeat |-> 1],
       [name |-> "B", start_measure |-> 5, end_measure |-> 8, repeat |-> 1] >>

\* C7 as stated: for the empty string and for every text without a barline
\* character detect_sections returns exactly the two boundaries A = 1..4 and
\* B = 5..8, each with repeat 1.
C7_FallbackAnyBarlessText ==
    (pc = "detected" /\ ~HasBarline(abc)) => section_info = FallbackAB

\* C7 amended: for the empty string and for every text without a barline
\* character and with fewer than two inline markers [P:A] / [P:B],
\* detect_sections returns exactly A = 1..4 and B = 5..8, each with repeat 1.
C7_FallbackBarlessFewMarkers ==
    (/\ pc = "detected"
     /\ ~HasBarline(abc)
     /\ Len(MarkerLetters(abc, {"A", "B"})) < 2)
    => section_info = FallbackAB

C7_Witness ==
    /\ pc = "detected"
    /\ ~HasBarline(abc)
    /\ Len(abc) >= 3
    /\ Len(MarkerLetters(abc, {"A", "B"})) = 1
    /\ section_info = FallbackAB

ExpectedRepeatName(j) ==
    IF j = 1 THEN "A" ELSE IF j = 2 THEN "B" ELSE "C" \o ToString(j - 2)

\* C8: with fewer than two inline part markers (fewer than two [P:A] / [P:B]
\* suffices) and k >= 1 end-repeat tokens (:|, :|:, :||:) in the music,
\* detect_sections returns exactly k boundaries,
\* in token order (end measures increase), named A, B, C1, C2, ..., pairwise
\* distinct, each with repeat 2.
C8_RepeatMarkerStrategy ==
    LET k == EndTokenCount(MusicOf(abc)) IN
    (/\ pc = "detected"
     /\ Len(MarkerLetters(abc, {"A", "B"})) < 2
     /\ k >= 1)
    => /\ Len(section_info) = k
       /\ \A j \in 1..k :
            /\ section_info[j].name = ExpectedRepeatName(j)
            /\ section_info[j].repeat = 2
       /\ \A i, j \in 1..k :
            i < j => /\ section_info[i].name # section_info[j].name
                     /\ section_info[i].end_measure < section_info[j].end_measure

C8_Witness ==
    /\ pc = "detected"
    /\ Len(MarkerLetters(abc, UpperCase)) < 2
    /\ EndTokenCount(MusicOf(abc)) = 4
    /\ Len(section_info) = 4
    /\ section_info[3].name = "C1"
    /\ section_info[4].name = "C2"

PartMarkerBoundaries(ls) ==
    [i \in 1..Len(ls) |->
        [name |-> ls[i], start_measure |-> 4 * (i - 1) + 1,
         end_measure |-> 4 * i, repeat |-> 2]]

\* C10 as stated: with n >= 2 inline markers [P:X], X any letter,
\* detect_sections returns n boundaries, the i-th named by its letter, spanning
\* measures 4(i-1)+1 .. 4i, each with repeat 2.
C10_PartMarkersAnyLetter ==
    LET ls == MarkerLetters(abc, UpperCase) IN
    (pc = "detected" /\ Len(ls) >= 2) => section_info = PartMarkerBoundaries(ls)

\* C10 amended: with n >= 2 inline markers [P:A] or [P:B], detect_sections
\* returns n boundaries, one per occurrence in text order, the i-th named by
\* its letter, spanning measures 4(i-1)+1 .. 4i, each with repeat 2.
C10_PartMarkersAB ==
    LET ls == MarkerLetters(abc, {"A", "B"}) IN
    (pc = "detected" /\ Len(ls) >= 2) => section_info = PartMarkerBoundaries(ls)

C10_Witness ==
    /\ pc = "detected"
    /\ MarkerLetters(abc, {"A", "B"}) = <<"B", "A", "A">>
    /\ Len(section_info) = 3
    /\ section_info[3] =
         [name |-> "A", start_measure |-> 9, end_measure |-> 12, repeat |-> 2]

----------------------------------------------------------------------------
(* Beat positions.  A time is an integer number of ticks; a cut point of the *)
(* even split, total_beats * (i + 1) / num_sections, is a fraction of ticks,  *)
(* kept as a reduced pair <<numerator, denominator>>.                         *)

RECURSIVE GCD(_, _)
GCD(a, b) == IF b = 0 THEN a ELSE GCD(b, a % b)

Rat(n, d) == LET g == GCD(n, d) IN IF g = 0 THEN <<0, 1>> ELSE <<n \div g, d \div g>>
RatOf(n) == <<n, 1>>
RatLess(a, b) == a[1] * b[2] < b[1] * a[2]
RatLeq(a, b) == a[1] * b[2] <= b[1] * a[2]

SetMin(S) == CHOOSE x \in S : \A y \in S : x <= y
SetMax(S) == CHOOSE x \in S : \A y \in S : x >= y

----------------------------------------------------------------------------
(* _get_beats_per_measure (backend/abc_parser.py) *)

Digits == <<"0", "1", "2", "3", "4", "5", "6", "7", "8", "9">>
IsDigit(c) == \E k \in 1..Len(Digits) : Digits[k] = c
DigitValue(c) == (CHOOSE k \in 1..Len(Digits) : Digits[k] = c) - 1

\* int(s) for a string of decimal digits; anything else is a ValueError
IsIntLiteral(s) == s # <<>> /\ \A k \in 1..Len(s) : IsDigit(s[k])

RECURSIVE IntOf(_)
IntOf(s) ==
    IF s = <<>> THEN 0
    ELSE 10 * IntOf(SubSeq(s, 1, Len(s) - 1)) + DigitValue(s[Len(s)])

\* time_sig.split('/')
RECURSIVE SplitSlashFrom(_, _, _)
SplitSlashFrom(s, cur, acc) ==
    IF s = <<>> THEN Append(acc, cur)
    ELSE IF Head(s) = "/" THEN SplitSlashFrom(Tail(s), <<>>, Append(acc, cur))
    ELSE SplitSlashFrom(Tail(s), Append(cur, Head(s)), acc)

SplitSlash(s) == SplitSlashFrom(s, <<>>, <<>>)

\* ticks of one beat (one quarter note)
TicksPerBeat == 2

\* the value returned on ValueError / IndexError: 4.0 beats
DefaultBeatsPerMeasure == 4

\* [raised |-> TRUE] when the call raises (ZeroDivisionError is not caught),
\* else the beats per measure in ticks, as a fraction
get_beats_per_measure(ts) ==
    LET parts == SplitSlash(ts)
        fallback == [raised |-> FALSE,
                     ticks |-> RatOf(DefaultBeatsPerMeasure * TicksPerBeat)]
    IN IF ~IsIntLiteral(parts[1]) THEN fallback             \* ValueError
       ELSE IF Len(parts) < 2 THEN fallback                 \* IndexError
       ELSE IF ~IsIntLiteral(parts[2]) THEN fallback        \* ValueError
       ELSE IF IntOf(parts[2]) = 0 THEN [raised |-> TRUE]   \* ZeroDivisionError
       ELSE [raised |-> FALSE,
             ticks |-> Rat(IntOf(parts[1]) * 4 * TicksPerBeat, IntOf(parts[2]))]

----------------------------------------------------------------------------
(* _assign_notes_to_sections (backend/abc_parser.py) *)

\* sorted(all_notes, key=lambda n: n['start_time']): a stable sort
RECURSIVE InsertByStart(_, _)
InsertByStart(sorted, n) ==
    IF sorted = <<>> THEN <<n>>
    ELSE IF sorted[Len(sorted)].start_time <= n.start_time THEN Append(sorted, n)
    ELSE Append(InsertByStart(SubSeq(sorted, 1, Len(sorted) - 1), n),
                sorted[Len(sorted)])

RECURSIVE SortByStartFrom(_, _, _)
SortByStartFrom(notes, i, sorted) ==
    IF i > Len(notes) THEN sorted
    ELSE SortByStartFrom(notes, i + 1, InsertByStart(sorted, notes[i]))

\* (a variant that leaves the note events in the order given)
SortByStartAsGiven(notes) == notes

SortByStart(notes) == SortByStartFrom(notes, 1, <<>>)

\* measure_start_beats: measure -> earliest start_time of a note of it
MeasureStartBeats(sorted_notes) ==
    LET idx == 1..Len(sorted_notes)
        measures == {sorted_notes[k].measure : k \in idx}
    IN [m \in measures |->
           SetMin({sorted_notes[k].start_time :
                      k \in {j \in idx : sorted_notes[j].measure = m}})]

\* (a variant that stops at the last onset: max(start_time))
TotalBeatsOnsets(sorted_notes) ==
    SetMax({sorted_notes[k].start_time : k \in 1..Len(sorted_notes)})

\* total_beats = max(n['start_time'] + n['duration'] for n in sorted_notes)
TotalBeats(sorted_notes) ==
    SetMax({sorted_notes[k].start_time + sorted_notes[k].duration :
               k \in 1..Len(sorted_notes)})

\* (a variant that also takes a full first measure for a pickup)
HasPickupWithin(msb, ts) ==
    IF 0 \in DOMAIN msb /\ 1 \in DOMAIN msb
    THEN LET measure_0_duration == msb[1] - msb[0]
             beats_per_measure == get_beats_per_measure(ts)
         IN IF beats_per_measure.raised THEN [raised |-> TRUE]
            ELSE [raised |-> FALSE,
                  value |-> RatLeq(RatOf(measure_0_duration),
                                   beats_per_measure.ticks)]
    ELSE [raised |-> FALSE, value |-> FALSE]

\* lines 224-228: has_pickup, or the exception of _get_beats_per_measure
HasPickup(msb, ts) ==
    IF 0 \in DOMAIN msb /\ 1 \in DOMAIN msb
    THEN LET measure_0_duration == msb[1] - msb[0]
             beats_per_measure == get_beats_per_measure(ts)
         IN IF beats_per_measure.raised THEN [raised |-> TRUE]
            ELSE [raised |-> FALSE,
                  value |-> RatLess(RatOf(measure_0_duration),
                                    beats_per_measure.ticks)]
    ELSE [raised |-> FALSE, value |-> FALSE]

\* info.get('next_has_pickup', False), info.get('repeat', 1)
GetNextHasPickup(info) ==
    IF "next_has_pickup" \in DOMAIN info THEN info.next_has_pickup ELSE FALSE
\* (a variant that gives every section the default repeat)
GetRepeatOne(info) == 1
GetRepeat(info) == IF "repeat" \in DOMAIN info THEN info.repeat ELSE 1

\* (a variant that probes the measure after the candidate before the one
\* before it)
CheckOrderForwardFirst(info, i, has_pickup) ==
    LET target_measure == info[i + 1].start_measure + (IF has_pickup THEN 0 ELSE -1)
    IN <<target_measure, target_measure + 1, target_measure - 1>>

\* (a variant that, for a flagged boundary, starts one measure earlier)
CheckOrderPickupEarlier(info, i, has_pickup) ==
    LET target_measure == info[i + 1].start_measure + (IF has_pickup THEN 0 ELSE -1)
    IN IF GetNextHasPickup(info[i])
       THEN <<target_measure - 1, target_measure - 2, target_measure>>
       ELSE <<target_measure, target_measure - 1, target_measure + 1>>

\* lines 243-256: the measures probed for the cut after section i
CheckOrder(info, i, has_pickup) ==
    LET next_start_measure == info[i + 1].start_measure
        m21_offset == IF has_pickup THEN 0 ELSE -1
    IN IF GetNextHasPickup(info[i])
       THEN LET pickup_m21_measure == next_start_measure + m21_offset
            IN <<pickup_m21_measure, pickup_m21_measure - 1, pickup_m21_measure + 1>>
       ELSE LET target_measure == next_start_measure + m21_offset
            IN <<target_measure, target_measure - 1, target_measure + 1>>

\* lines 258-264: the first probed measure that has a note, else the even
\* split (i counts from 1 here, so the code's i + 1 is i)
EndBeat(info, i, msb, total_beats, has_pickup) ==
    LET check_order == CheckOrder(info, i, has_pickup)
        hits == {k \in 1..Len(check_order) : check_order[k] \in DOMAIN msb}
    IN IF hits # {} THEN RatOf(msb[check_order[SetMin(hits)]])
       ELSE Rat(total_beats * i, Len(info))

\* (a variant in which every section starts at beat 0)
StartBeatZero(i, ranges) == RatOf(0)

\* lines 207-212
StartBeat(i, ranges) == IF i = 1 THEN RatOf(0) ELSE ranges[Len(ranges)][2]

\* lines 206-266: section_beat_ranges
RECURSIVE BeatRangesFrom(_, _, _, _, _, _)
BeatRangesFrom(info, i, ranges, msb, total_beats, has_pickup) ==
    IF i > Len(info) THEN ranges
    ELSE LET start_beat == StartBeat(i, ranges)
             end_beat == IF i = Len(info) THEN RatOf(total_beats)
                         ELSE EndBeat(info, i, msb, total_beats, has_pickup)
         IN BeatRangesFrom(info, i + 1, Append(ranges, <<start_beat, end_beat>>),
                           msb, total_beats, has_pickup)

\* lines 272-276
NotesInSection(sorted_notes, range) ==
    SelectSeq(sorted_notes,
              LAMBDA n : /\ RatLeq(range[1], RatOf(n.start_time))
                         /\ RatLess(RatOf(n.start_time), range[2]))

\* (a variant that leaves the start times absolute)
SectionStartTimeZero(notes_in_section) == 0

\* line 281
SectionStartTime(notes_in_section) ==
    SetMin({notes_in_section[k].start_time : k \in 1..Len(notes_in_section)})

\* lines 278-290
SectionNotes(notes_in_section) ==
    IF notes_in_section = <<>> THEN <<>>
    ELSE LET section_start_time == SectionStartTime(notes_in_section)
         IN [k \in 1..Len(notes_in_section) |->
               [pitch |-> notes_in_section[k].pitch,
                duration |-> notes_in_section[k].duration,
                start_time |-> notes_in_section[k].start_time - section_start_time]]

\* lines 149-160: no boundaries, one section "Full" with absolute times
FullSection(notes) ==
    << [name |-> "Full", start_measure |-> 1,
        end_measure |-> IF notes # <<>>
                        THEN SetMax({notes[k].measure : k \in 1..Len(notes)})
                        ELSE 1,
        notes |-> [k \in 1..Len(notes) |->
                     [pitch |-> notes[k].pitch, duration |-> notes[k].duration,
                      start_time |-> notes[k].start_time]],
        repeat |-> 1] >>

\* the call: [raised |-> TRUE] or the ranges it built, the has_pickup and the
\* check_order lists it computed on the way, and the sections returned
assign_notes_to_sections(notes, info, ts) ==
    IF info = <<>> THEN
        [raised |-> FALSE, ranges |-> <<>>, has_pickup |-> FALSE,
         check_orders |-> <<>>, sections |-> FullSection(notes)]
    ELSE LET sorted_notes == SortByStart(notes) IN
    IF sorted_notes = <<>> THEN
        [raised |-> FALSE, ranges |-> <<>>, has_pickup |-> FALSE,
         check_orders |-> <<>>,
         sections |-> [i \in 1..Len(info) |->
                         [name |-> info[i].name,
                          start_measure |-> info[i].start_measure,
                          end_measure |-> info[i].end_measure,
                          notes |-> <<>>,
                          repeat |-> GetRepeat(info[i])]]]
    ELSE LET msb == MeasureStartBeats(sorted_notes)
             total_beats == TotalBeats(sorted_notes)
             \* has_pickup is computed in each iteration but the last
             pickup == IF Len(info) >= 2 THEN HasPickup(msb, ts)
                       ELSE [raised |-> FALSE, value |-> FALSE]
         IN IF pickup.raised THEN [raised |-> TRUE]
            ELSE LET ranges == BeatRangesFrom(info, 1, <<>>, msb, total_beats,
                                              pickup.value)
                 IN [raised |-> FALSE, ranges |-> ranges,
                     has_pickup |-> pickup.value,
                     check_orders |-> [i \in 1..(Len(info) - 1) |->
                                         CheckOrder(info, i, pickup.value)],
                     sections |-> [i \in 1..Len(info) |->
                        [name |-> info[i].name,
                         start_measure |-> info[i].start_measure,
                         end_measure |-> info[i].end_measure,
                         notes |-> SectionNotes(NotesInSection(sorted_notes, ranges[i])),
                         repeat |-> GetRepeat(info[i])]]]

----------------------------------------------------------------------------
(* The inputs _assign_notes_to_sections is run on *)

PitchNames == <<"D4", "F#4", "A4", "B4", "d5", "e5">>

\* onsets and durations in ticks, measure indices (0 is the pickup measure)
StartTimes == 0..2
Durations == 1..2
NoteMeasures == 0..2
\* start measures of the boundaries after the first, which starts at measure 1
StartMeasures == 2..4

\* note events: the k-th of a list has the k-th pitch name
NoteShapes == [start_time : StartTimes, duration : Durations, measure : NoteMeasures]

NotesOf(shapes) ==
    [k \in 1..Len(shapes) |->
        [pitch |-> PitchNames[k], duration |-> shapes[k].duration,
         start_time |-> shapes[k].start_time, measure |-> shapes[k].measure]]

\* the members of a set of numbers, in increasing order
RECURSIVE Ascending(_)
Ascending(S) == IF S = {} THEN <<>> ELSE <<SetMin(S)>> \o Ascending(S \ {SetMin(S)})

\* boundaries with increasing start measures; flagged = TRUE gives them the
\* shape of the repeat strategy (repeat 2, next_has_pickup set), FALSE that of
\* the half split (repeat 1, no next_has_pickup key)
BoundariesOf(starts, flagged) ==
    LET ss == Ascending(starts) IN
    [i \in 1..Len(ss) |->
        LET end == IF i < Len(ss) THEN ss[i + 1] - 1 ELSE ss[i] + 1 IN
        IF flagged
        THEN [name |-> SectionName(i), start_measure |-> ss[i], end_measure |-> end,
              repeat |-> 2, next_has_pickup |-> TRUE]
        ELSE [name |-> SectionName(i), start_measure |-> ss[i], end_measure |-> end,
              repeat |-> 1]]

TimeSigs ==
    { <<"4", "/", "4">>, <<"1", "/", "8">>, <<"C">>, <<"4">>, <<"4", "/", "0">> }

NoTimeSig == <<>>

InitAssign ==
    /\ pc = "assign"
    /\ abc = <<>>
    /\ \/ section_info = <<>>
       \/ \E starts \in SUBSET StartMeasures, flagged \in BOOLEAN :
            section_info = BoundariesOf({1} \cup starts, flagged)
    /\ \E shapes \in SeqsUpTo(NoteShapes, MaxNotes) : all_notes = NotesOf(shapes)
    /\ time_sig = NoTimeSig
    /\ section_beat_ranges = NoRanges
    /\ sections = NoSections
    /\ expanded = NoSections
    /\ walk = NoWalk
    /\ score = NoScore
    /\ tune = NoTune
    /\ tune_has_pickup = FALSE
    /\ check_orders = NoOrders
    /\ tunes = NoRows
    /\ tune_list_cache = None
    /\ tune_files = NoFiles
    /\ requests = 0

\* sections = _assign_notes_to_sections(all_notes, section_info, time_sig),
\* for a time signature ts
AssignNotes ==
    /\ pc = "assign"
    /\ \E ts \in TimeSigs :
        LET r == assign_notes_to_sections(all_notes, section_info, ts) IN
        /\ ~r.raised
        /\ time_sig' = ts
        /\ section_beat_ranges' = r.ranges
        /\ tune_has_pickup' = r.has_pickup
        /\ check_orders' = r.check_orders
        /\ sections' = r.sections
    /\ pc' = "assigned"
    /\ UNCHANGED <<abc, section_info, all_notes, expanded, walk, score, tune,
                   tunes, tune_list_cache, tune_files, requests>>

\* the call raises: no sections are returned
AssignRaises ==
    /\ pc = "assign"
    /\ \E ts \in TimeSigs :
        /\ assign_notes_to_sections(all_notes, section_info, ts).raised
        /\ time_sig' = ts
    /\ pc' = "assign_raised"
    /\ UNCHANGED <<abc, section_info, all_notes, section_beat_ranges, sections,
                   expanded, walk, score, tune, tune_has_pickup, check_orders,
                   tunes, tune_list_cache, tune_files, requests>>

NextAssign == AssignNotes \/ AssignRaises

SpecAssign == InitAssign /\ [][NextAssign]_vars

\* The same call on melodies as a notation engine lays them out: one voice,
\* each note starting where the previous one ends, measure indices that never
\* decrease, the first note in measure 0 or 1.
TuneSteps == [duration : Durations, measure_step : 0..1]

RECURSIVE TuneFrom(_, _, _, _)
TuneFrom(steps, k, start, measure) ==
    IF k > Len(steps) THEN <<>>
    ELSE LET m == measure + steps[k].measure_step IN
         <<[pitch |-> PitchNames[k], duration |-> steps[k].duration,
            start_time |-> start, measure |-> m]>>
         \o TuneFrom(steps, k + 1, start + steps[k].duration, m)

InitAssignTune ==
    /\ pc = "assign"
    /\ abc = <<>>
    /\ \E starts \in SUBSET (1..MaxTuneMeasure), flagged \in BOOLEAN :
         /\ Cardinality(starts) \in 1..3
         /\ section_info = BoundariesOf(starts, flagged)
    /\ \E k \in 1..MaxTuneNotes : \E steps \in [1..k -> TuneSteps] :
         all_notes = TuneFrom(steps, 1, 0, 0)
    /\ time_sig = NoTimeSig
    /\ section_beat_ranges = NoRanges
    /\ sections = NoSections
    /\ expanded = NoSections
    /\ walk = NoWalk
    /\ score = NoScore
    /\ tune = NoTune
    /\ tune_has_pickup = FALSE
    /\ check_orders = NoOrders
    /\ tunes = NoRows
    /\ tune_list_cache = None
    /\ tune_files = NoFiles
    /\ requests = 0

SpecAssignTune == InitAssignTune /\ [][NextAssign]_vars

----------------------------------------------------------------------------
(* Properties of _assign_notes_to_sections *)

RECURSIVE SumLens(_)
SumLens(secs) == IF secs = <<>> THEN 0 ELSE Len(Head(secs).notes) + SumLens(Tail(secs))

\* the call returned, on non-empty note events and non-empty boundaries
AssignedNonEmpty == pc = "assigned" /\ all_notes # <<>> /\ section_info # <<>>

\* the cut after section i was not found in the measure lookup
EvenSplitUsed(i) ==
    LET msb == MeasureStartBeats(SortByStart(all_notes))
        order == CheckOrder(section_info, i, HasPickup(msb, time_sig).value)
    IN \A k \in 1..Len(order) : order[k] \notin DOMAIN msb

\* C1: conservation: on non-empty note events and non-empty boundaries the
\* note lists of the output sections hold, together, exactly as many notes
\* as there are input note events (none dropped, none duplicated).
C1_Conservation == AssignedNonEmpty => SumLens(sections) = Len(all_notes)

\* C2: no note is dropped: on non-empty note events and non-empty boundaries
\* every input note appears in at least one output section, with its pitch
\* and duration, also when a cut point comes from the even split.
C2_NoNoteDropped ==
    AssignedNonEmpty =>
        \A k \in 1..Len(all_notes) :
            \E i \in 1..Len(sections) : \E j \in 1..Len(sections[i].notes) :
                /\ sections[i].notes[j].pitch = all_notes[k].pitch
                /\ sections[i].notes[j].duration = all_notes[k].duration

C2_Witness ==
    /\ AssignedNonEmpty
    /\ Len(section_info) = 3
    /\ Len(all_notes) = 2
    /\ ~EvenSplitUsed(1)
    /\ EvenSplitUsed(2)
    /\ section_beat_ranges[2][2] = <<2, 1>>
    /\ Len(sections[2].notes) = 1
    /\ Len(sections[3].notes) = 1

\* C3: contiguity of the beat ranges: the first starts at beat 0, each ends
\* where the next starts, and the last ends at the maximum of
\* start_time + duration over all notes.
C3_ContiguousRanges ==
    AssignedNonEmpty =>
        LET n == Len(section_info)
            ends == {all_notes[k].start_time + all_notes[k].duration :
                        k \in 1..Len(all_notes)}
        IN /\ Len(section_beat_ranges) = n
           /\ section_beat_ranges[1][1] = <<0, 1>>
           /\ \A i \in 1..(n - 1) :
                section_beat_ranges[i][2] = section_beat_ranges[i + 1][1]
           /\ section_beat_ranges[n][2] = <<SetMax(ends), 1>>

C3_Witness ==
    /\ AssignedNonEmpty
    /\ Len(section_beat_ranges) = 3
    /\ section_beat_ranges[1][2] = <<1, 1>>
    /\ section_beat_ranges[2] = <<<<1, 1>>, <<2, 1>>>>
    /\ section_beat_ranges[3][2] = <<4, 1>>

\* C4: normalized relative timing: in every returned section that has a
\* note, all start times are >= 0 and the least start time is exactly 0.
C4_NormalizedTiming ==
    AssignedNonEmpty =>
        \A i \in 1..Len(sections) :
            sections[i].notes # <<>> =>
                /\ \A j \in 1..Len(sections[i].notes) :
                      sections[i].notes[j].start_time >= 0
                /\ \E j \in 1..Len(sections[i].notes) :
                      sections[i].notes[j].start_time = 0

C4_Witness ==
    /\ AssignedNonEmpty
    /\ Len(sections) >= 2
    /\ RatLess(<<0, 1>>, section_beat_ranges[2][1])
    /\ Len(sections[2].notes) = 2
    /\ sections[2].notes[1].start_time = 0
    /\ sections[2].notes[2].start_time = 1

----------------------------------------------------------------------------
(* _expand_playback_notes (backend/abc_parser.py) *)

\* (a variant that returns an empty playback list for an unrepeated section)
CopyNotesEmpty(notes) == <<>>

\* line 321: section.notes.copy()
CopyNotes(notes) == notes

\* (a variant that measures the first note only)
SectionDurationOfFirst(notes) == notes[1].start_time + notes[1].duration

\* line 326
SectionDuration(notes) ==
    SetMax({notes[k].start_time + notes[k].duration : k \in 1..Len(notes)})

\* (a variant that takes any note before beat 1 for a pickup)
ExpanderHasPickupAnyEarly(notes) ==
    \E k \in 1..Len(notes) : notes[k].start_time < TicksPerBeat

\* lines 332-333: notes before beat 1 exist and the first note is not at 0
ExpanderHasPickup(notes) ==
    /\ \E k \in 1..Len(notes) : notes[k].start_time < TicksPerBeat
    /\ notes[1].start_time > 0

\* line 351
FirstFullBeat(notes) ==
    LET full == {notes[k].start_time : k \in {j \in 1..Len(notes) :
                                              notes[j].start_time >= TicksPerBeat}}
    IN IF full # {} THEN SetMin(full) ELSE 0

\* (a variant that never skips)
SkipBeatsNone(notes, rep, has_pickup) == 0

\* lines 345-352
SkipBeats(notes, rep, has_pickup) ==
    IF rep > 0 /\ has_pickup THEN FirstFullBeat(notes) ELSE 0

\* (a variant that does not move the kept notes back by the skipped beats)
EmitPassUnshifted(notes, current_offset, skip_beats) ==
    LET kept == SelectSeq(notes, LAMBDA n : ~(n.start_time < skip_beats))
    IN [k \in 1..Len(kept) |->
          [pitch |-> kept[k].pitch, duration |-> kept[k].duration,
           start_time |-> current_offset + kept[k].start_time]]

\* lines 354-362: the notes one pass appends
EmitPass(notes, current_offset, skip_beats) ==
    LET kept == SelectSeq(notes, LAMBDA n : ~(n.start_time < skip_beats))
    IN [k \in 1..Len(kept) |->
          [pitch |-> kept[k].pitch, duration |-> kept[k].duration,
           start_time |-> current_offset + kept[k].start_time - skip_beats]]

\* lines 342-368: passes rep .. repeat-1; the locals at the end of the loop
RECURSIVE ExpandPasses(_, _, _, _, _)
ExpandPasses(notes, repeat, rep, playback_notes, current_offset) ==
    IF rep >= repeat
    THEN [playback_notes |-> playback_notes, current_offset |-> current_offset]
    ELSE LET skip_beats == SkipBeats(notes, rep, ExpanderHasPickup(notes))
             advance == IF rep = 0 THEN SectionDuration(notes)
                        ELSE SectionDuration(notes) - skip_beats
         IN ExpandPasses(notes, repeat, rep + 1,
                         playback_notes \o EmitPass(notes, current_offset, skip_beats),
                         current_offset + advance)

\* (a variant that keeps the offset the previous section left behind)
InitialOffsetKept(left_over) == left_over

\* line 340: current_offset = 0.0, whatever an earlier iteration left in it
InitialOffset(left_over) == 0

\* (a variant that marks the unrolled section as played once)
WithPlaybackUnrolled(section, playback_notes) ==
    [name |-> section.name, start_measure |-> section.start_measure,
     end_measure |-> section.end_measure, notes |-> section.notes,
     repeat |-> 1, playback_notes |-> playback_notes]

\* lines 315-322, 370-377: the Section appended to expanded_sections
WithPlayback(section, playback_notes) ==
    [name |-> section.name, start_measure |-> section.start_measure,
     end_measure |-> section.end_measure, notes |-> section.notes,
     repeat |-> section.repeat, playback_notes |-> playback_notes]

\* one iteration of the loop over sections (lines 312-377): the section
\* appended and the value the local current_offset has afterwards
ExpandSection(section, left_over) ==
    IF section.repeat <= 1 \/ section.notes = <<>>
    THEN [section |-> WithPlayback(section, CopyNotes(section.notes)),
          current_offset |-> left_over]
    ELSE LET locals == ExpandPasses(section.notes, section.repeat, 0, <<>>,
                                    InitialOffset(left_over))
         IN [section |-> WithPlayback(section, locals.playback_notes),
             current_offset |-> locals.current_offset]

RECURSIVE ExpandFrom(_, _, _, _)
ExpandFrom(secs, i, expanded_sections, left_over) ==
    IF i > Len(secs) THEN expanded_sections
    ELSE LET r == ExpandSection(secs[i], left_over)
         IN ExpandFrom(secs, i + 1, Append(expanded_sections, r.section),
                       r.current_offset)

expand_playback_notes(secs) == ExpandFrom(secs, 1, <<>>, 0)

----------------------------------------------------------------------------
(* The sections _expand_playback_notes is run on *)

\* onsets in ticks (0, half a beat, one beat), repeat counts
SectionStarts == 0..2
Repeats == 0..3
SectionCounts == 1..2

\* note lists in onset order, the k-th note with the k-th pitch name
SectionNoteLists ==
    { [k \in 1..Len(shapes) |->
          [pitch |-> PitchNames[k], duration |-> shapes[k].duration,
           start_time |-> shapes[k].start_time]] :
      shapes \in { sh \in SeqsUpTo([start_time : SectionStarts, duration : Durations],
                                   MaxSectionNotes) :
                     \A k \in 1..(Len(sh) - 1) : sh[k].start_time <= sh[k + 1].start_time } }

\* the i-th section of a list: named by its place, 4 measures long
SectionAt(i, notes, repeat) ==
    [name |-> SectionName(i), start_measure |-> 4 * (i - 1) + 1,
     end_measure |-> 4 * i, notes |-> notes, repeat |-> repeat]

InitExpand ==
    /\ pc = "expand"
    /\ abc = <<>>
    /\ section_info = NoSections
    /\ all_notes = NoNotes
    /\ time_sig = NoTimeSig
    /\ section_beat_ranges = NoRanges
    /\ \E n \in SectionCounts :
         \E ns \in [1..n -> SectionNoteLists], rs \in [1..n -> Repeats] :
            sections = [i \in 1..n |-> SectionAt(i, ns[i], rs[i])]
    /\ expanded = NoSections
    /\ walk = NoWalk
    /\ score = NoScore
    /\ tune = NoTune
    /\ tune_has_pickup = FALSE
    /\ check_orders = NoOrders
    /\ tunes = NoRows
    /\ tune_list_cache = None
    /\ tune_files = NoFiles
    /\ requests = 0

\* sections = _expand_playback_notes(sections)        (abc_parser.py line 40)
ExpandPlaybackNotes ==
    /\ pc = "expand"
    /\ expanded' = expand_playback_notes(sections)
    /\ pc' = "expanded"
    /\ UNCHANGED <<abc, section_info, all_notes, time_sig, section_beat_ranges, sections,
                   walk, score, tune, tune_has_pickup, check_orders,
                   tunes, tune_list_cache, tune_files, requests>>

NextExpand == ExpandPlaybackNotes

SpecExpand == InitExpand /\ [][NextExpand]_vars

----------------------------------------------------------------------------
(* Properties of the playback expander *)

Expanded == pc = "expanded"

\* C5: expand identity: a section with repeat <= 1, or with no notes at
\* all (whatever its repeat), gets playback_notes equal to its notes,
\* element for element, in the same order and of the same length.
C5_ExpandIdentity ==
    Expanded =>
        /\ Len(expanded) = Len(sections)
        /\ \A k \in 1..Len(sections) :
              (sections[k].repeat <= 1 \/ sections[k].notes = <<>>) =>
                  /\ Len(expanded[k].playback_notes) = Len(sections[k].notes)
                  /\ \A j \in 1..Len(sections[k].notes) :
                        expanded[k].playback_notes[j] = sections[k].notes[j]

C5_Witness ==
    /\ Expanded
    /\ Len(sections) = 2
    /\ sections[1].repeat = 1
    /\ Len(sections[1].notes) = 2
    /\ sections[1].notes[1].start_time > 0
    /\ expanded[1].playback_notes = sections[1].notes
    /\ sections[2].repeat = 3
    /\ sections[2].notes = <<>>
    /\ expanded[2].playback_notes = <<>>

\* C6: expansion works section by section: the playback_notes of output
\* section k are what expanding input section k alone gives, and they stay
\* the same when any other section of the list is replaced by another one.
C6_ExpandPerSection ==
    Expanded =>
        \A k \in 1..Len(sections) :
            /\ expanded[k].playback_notes =
                   expand_playback_notes(<<sections[k]>>)[1].playback_notes
            /\ \A j \in (1..Len(sections)) \ {k} :
                  \A ns \in SectionNoteLists, r \in Repeats :
                     expand_playback_notes(
                         [sections EXCEPT ![j] = SectionAt(j, ns, r)])[k].playback_notes
                       = expanded[k].playback_notes

C6_Witness ==
    /\ Expanded
    /\ Len(sections) = 2
    /\ sections[1].repeat = 3
    /\ Len(sections[1].notes) = 2
    /\ sections[2].repeat = 2
    /\ Len(sections[2].notes) = 2
    /\ sections[2].notes[1].start_time > 0
    /\ Len(expanded[1].playback_notes) >= 5
    /\ Len(expanded[2].playback_notes) = 3
    /\ expanded[2].playback_notes[1].start_time = sections[2].notes[1].start_time

----------------------------------------------------------------------------
(* Properties of the repeat-marker walk *)

Detected == pc = "detected"

\* C11: boundary contiguity: in the boundaries detect_sections returns, every
\* boundary after the first starts at the measure after the previous
\* boundary's end_measure.
C11_BoundaryContiguity ==
    Detected =>
        \A j \in 1..(Len(section_info) - 1) :
            section_info[j + 1].start_measure = section_info[j].end_measure + 1

----------------------------------------------------------------------------
(* Metadata extraction of parse_abc (backend/abc_parser.py) *)

LowerCase ==
    {"a", "b", "c", "d", "e", "f", "g", "h", "i", "j", "k", "l", "m", "n", "o",
     "p", "q", "r", "s", "t", "u", "v", "w", "x", "y", "z"}

\* the character classes of the patterns: \w, \S, . and \d
InClass(c, cls) ==
    CASE cls = "w" -> c \in UpperCase \cup LowerCase \cup {"_"} \/ IsDigit(c)
      [] cls = "S" -> c \notin WhiteSpace
      [] cls = "." -> c # "\n"
      [] cls = "d" -> IsDigit(c)

\* ^ under re.MULTILINE: the start of the text and after every newline
LineStarts(s) == {1} \cup {i + 1 : i \in {k \in 1..Len(s) : s[k] = "\n"}}

\* where a greedy \s* that starts at i stops
RECURSIVE SkipSpace(_, _)
SkipSpace(s, i) ==
    IF i <= Len(s) /\ s[i] \in WhiteSpace THEN SkipSpace(s, i + 1) ELSE i

\* the end (exclusive) of the longest run from i of characters of class cls
RECURSIVE RunEnd(_, _, _)
RunEnd(s, i, cls) ==
    IF i <= Len(s) /\ InClass(s[i], cls) THEN RunEnd(s, i + 1, cls) ELSE i

\* the places where the header letter and a colon stand at a line start
HeaderStarts(s, letter) ==
    {p \in LineStarts(s) : StartsWithAt(s, p, <<letter, ":">>)}

\* re.search(r'^T:\s*(.+)$', abc, re.MULTILINE): group 1 of the match at p.
\* \s* is greedy and gives characters back until .+ finds one that is not a
\* newline; .+ then runs to the end of that line.
TitleGroupAt(s, p) ==
    LET q == SkipSpace(s, p + 2)
        from == IF q <= Len(s) THEN {q}
                ELSE {r \in (p + 2)..Len(s) : InClass(s[r], ".")}
    IN IF from = {} THEN <<>>
       ELSE LET r == SetMax(from) IN <<SubSeq(s, r, RunEnd(s, r, ".") - 1)>>

\* r'^K:\s*(\w+)' and r'^M:\s*(\S+)': group 1 of the match at p
RunGroupAt(s, p, cls) ==
    LET q == SkipSpace(s, p + 2)
        e == RunEnd(s, q, cls)
    IN IF e > q THEN <<SubSeq(s, q, e - 1)>> ELSE <<>>

\* r'^Q:\s*.*?(\d+)': the lazy .*? stops at the first digit of the line it
\* is on, (\d+) takes the run of digits there
TempoGroupAt(s, p) ==
    LET q == SkipSpace(s, p + 2)
        eol == RunEnd(s, q, ".")
        ds == {r \in q..(eol - 1) : IsDigit(s[r])}
    IN IF ds = {} THEN <<>>
       ELSE LET r == SetMin(ds) IN <<SubSeq(s, r, RunEnd(s, r, "d") - 1)>>

\* group 1 of the pattern of a header field, matched at p; <<>> for no match
GroupAt(s, p, field) ==
    CASE field = "T" -> TitleGroupAt(s, p)
      [] field = "K" -> RunGroupAt(s, p, "w")
      [] field = "M" -> RunGroupAt(s, p, "S")
      [] field = "Q" -> TempoGroupAt(s, p)

\* re.search: the match at the leftmost place that has one; <<>> for None
RECURSIVE FirstGroup(_, _, _)
FirstGroup(s, starts, field) ==
    IF starts = {} THEN <<>>
    ELSE LET p == SetMin(starts)
             g == GroupAt(s, p, field)
         IN IF g # <<>> THEN g ELSE FirstGroup(s, starts \ {p}, field)

\* re.search(pattern of the field, abc, re.MULTILINE)
HeaderSearch(s, field) == FirstGroup(s, HeaderStarts(s, field), field)

Untitled == <<"U", "n", "t", "i", "t", "l", "e", "d">>
DefaultKey == <<"C">>
DefaultTimeSignature == <<"4", "/", "4">>
DefaultTempo == 120

\* the first element of score.recurse() of one of the kinds; <<>> for none
FirstElement(sc, kinds) ==
    LET found == {k \in 1..Len(sc.elements) : sc.elements[k].kind \in kinds}
    IN IF found = {} THEN <<>> ELSE <<sc.elements[SetMin(found)]>>

\* _extract_title: the T: header only, stripped
extract_title(text) ==
    LET match == HeaderSearch(text, "T")
    IN IF match # <<>> THEN Strip(match[1]) ELSE Untitled

\* (a variant that asks the K: header before the engine)
extract_key_header_first(sc, text) ==
    LET element == FirstElement(sc, {"KeySignature", "Key"})
        match == HeaderSearch(text, "K")
    IN IF match # <<>> THEN match[1]
       ELSE IF element # <<>>
       THEN element[1].tonic \o (IF element[1].mode = "minor"
                                 THEN <<" ", "m", "i", "n", "o", "r">> ELSE <<>>)
       ELSE DefaultKey

\* _extract_key: a Key is a KeySignature, so the first of either kind is used
extract_key(sc, text) ==
    LET element == FirstElement(sc, {"KeySignature", "Key"})
        match == HeaderSearch(text, "K")
    IN IF element # <<>>
       THEN element[1].tonic \o (IF element[1].mode = "minor"
                                 THEN <<" ", "m", "i", "n", "o", "r">> ELSE <<>>)
       ELSE IF match # <<>> THEN match[1] ELSE DefaultKey

\* _extract_time_signature
extract_time_signature(sc, text) ==
    LET element == FirstElement(sc, {"TimeSignature"})
        match == HeaderSearch(text, "M")
    IN IF element # <<>> THEN element[1].ratioString
       ELSE IF match # <<>> THEN match[1] ELSE DefaultTimeSignature

\* _extract_tempo: int() of the mark's number (kept in halves of a beat per
\* minute) drops the fraction; int() of the digits of the Q: header
extract_tempo(sc, text) ==
    LET element == FirstElement(sc, {"MetronomeMark"})
        match == HeaderSearch(text, "Q")
    IN IF element # <<>> THEN element[1].number_halves \div 2
       ELSE IF match # <<>> THEN IntOf(match[1]) ELSE DefaultTempo

----------------------------------------------------------------------------
(* The texts and scores the metadata is extracted from *)

\* lines of a text: headers with and without a value, music, an empty line
HeaderLines ==
    { <<"T", ":", "R", "e", "e", "l", " ">>, <<"T", ":">>,
      <<"K", ":", "D">>, <<"K", ":", " ", "A", "m">>,
      <<"M", ":", "6", "/", "8">>,
      <<"Q", ":", "1", "/", "4", "=", "1", "2", "0">>, <<"Q", ":", "9", "0">>,
      <<"Q", ":", "f", "a", "s", "t">>,
      <<"d", "d", "|">>, <<>> }

\* '\n'.join(lines)
RECURSIVE JoinLines(_)
JoinLines(ls) ==
    IF ls = <<>> THEN <<>>
    ELSE IF Len(ls) = 1 THEN ls[1]
    ELSE ls[1] \o <<"\n">> \o JoinLines(Tail(ls))

\* what score.recurse() can hold: keys, a time signature, metronome marks
\* (120 and 112.5 to the minute), a note
ScoreElements ==
    { [kind |-> "Key", tonic |-> <<"G">>, mode |-> "minor"],
      [kind |-> "KeySignature", tonic |-> <<"E">>, mode |-> "major"],
      [kind |-> "TimeSignature", ratioString |-> <<"3", "/", "4">>],
      [kind |-> "MetronomeMark", number_halves |-> 240],
      [kind |-> "MetronomeMark", number_halves |-> 225],
      [kind |-> "Note"] }

\* the title the engine read, if it read one (the code does not ask for it)
ScoreTitles == {<<>>, << <<"J", "i", "g">> >>}

\* scores of at most two elements
Scores ==
    [title : ScoreTitles,
     elements : {<<>>} \cup {<<e>> : e \in ScoreElements}
                       \cup {<<e, f>> : e \in ScoreElements, f \in ScoreElements}]

InitMeta ==
    /\ pc = "extract"
    /\ \E ls \in SeqsUpTo(HeaderLines, MaxHeaderLines) : abc = JoinLines(ls)
    /\ score \in Scores
    /\ section_info = NoSections
    /\ all_notes = NoNotes
    /\ time_sig = <<>>
    /\ section_beat_ranges = NoRanges
    /\ sections = NoSections
    /\ expanded = NoSections
    /\ walk = NoWalk
    /\ tune = NoTune
    /\ tune_has_pickup = FALSE
    /\ check_orders = NoOrders
    /\ tunes = NoRows
    /\ tune_list_cache = None
    /\ tune_files = NoFiles
    /\ requests = 0

\* lines 25-28 of parse_abc, and the metadata of the Tune of lines 42-50
ExtractMetadata ==
    /\ pc = "extract"
    /\ tune' = [title |-> extract_title(abc),
                key |-> extract_key(score, abc),
                time_signature |-> extract_time_signature(score, abc),
                default_tempo |-> extract_tempo(score, abc)]
    /\ pc' = "extracted"
    /\ UNCHANGED <<abc, section_info, all_notes, time_sig, section_beat_ranges,
                   sections, expanded, walk, score, tune_has_pickup, check_orders,
                   tunes, tune_list_cache, tune_files, requests>>

NextMeta == ExtractMetadata

SpecMeta == InitMeta /\ [][NextMeta]_vars

----------------------------------------------------------------------------
(* Properties of the metadata extraction *)

Extracted == pc = "extracted"

\* what follows the colon on the lines of the text that start with the header
\* letter and a colon, in text order
HeaderValues(text, letter) ==
    LET ls == SplitLines(text)
        own == SelectSeq(ls, LAMBDA l : Len(l) >= 2 /\ l[1] = letter /\ l[2] = ":")
    IN [k \in 1..Len(own) |-> SubSeq(own[k], 3, Len(own[k]))]

\* v begins with a longest run of characters of class cls, and the run is r
IsLeadingRun(r, v, cls) ==
    /\ r # <<>>
    /\ Len(r) <= Len(v)
    /\ r = SubSeq(v, 1, Len(r))
    /\ \A k \in 1..Len(r) : InClass(r[k], cls)
    /\ Len(r) < Len(v) => ~InClass(v[Len(r) + 1], cls)

\* n is the number written by a longest run of digits of v
IsDigitRunOf(n, v) ==
    \E a \in 1..Len(v) : \E b \in a..Len(v) :
        /\ \A k \in a..b : IsDigit(v[k])
        /\ a > 1 => ~IsDigit(v[a - 1])
        /\ b < Len(v) => ~IsDigit(v[b + 1])
        /\ n = IntOf(SubSeq(v, a, b))

KeyName(element) ==
    element.tonic \o (IF element.mode = "minor"
                      THEN <<" ", "m", "i", "n", "o", "r">> ELSE <<>>)

EngineFirst(field_kinds) == FirstElement(score, field_kinds)

\* the engine-then-header-then-default order for key, time signature and tempo
EngineHeaderDefault ==
    LET k == EngineFirst({"KeySignature", "Key"})
        m == EngineFirst({"TimeSignature"})
        q == EngineFirst({"MetronomeMark"})
        kv == HeaderValues(abc, "K")
        mv == HeaderValues(abc, "M")
        qv == HeaderValues(abc, "Q")
    IN /\ k # <<>> => tune.key = KeyName(k[1])
       /\ (k = <<>> /\ kv # <<>> /\ LStrip(kv[1]) # <<>>
                    /\ InClass(LStrip(kv[1])[1], "w"))
            => IsLeadingRun(tune.key, LStrip(kv[1]), "w")
       /\ (k = <<>> /\ kv = <<>>) => tune.key = DefaultKey
       /\ m # <<>> => tune.time_signature = m[1].ratioString
       /\ (m = <<>> /\ mv # <<>> /\ LStrip(mv[1]) # <<>>)
            => IsLeadingRun(tune.time_signature, LStrip(mv[1]), "S")
       /\ (m = <<>> /\ mv = <<>>) => tune.time_signature = DefaultTimeSignature
       /\ q # <<>> => /\ 2 * tune.default_tempo <= q[1].number_halves
                      /\ q[1].number_halves < 2 * tune.default_tempo + 2
       /\ (q = <<>> /\ qv # <<>> /\ \E j \in 1..Len(qv[1]) : IsDigit(qv[1][j]))
            => IsDigitRunOf(tune.default_tempo, qv[1])
       /\ (q = <<>> /\ qv = <<>>) => tune.default_tempo = DefaultTempo

\* the title comes from the first T: header that has a value, else the default
TitleFromHeader ==
    LET tv == HeaderValues(abc, "T")
    IN /\ (tv # <<>> /\ Strip(tv[1]) # <<>>) => tune.title = Strip(tv[1])
       /\ tv = <<>> => tune.title = Untitled

\* the four extractions of a state about to extract all yield a value
ExtractionCompletes ==
    pc = "extract" =>
        /\ Len(extract_title(abc)) >= 0
        /\ Len(extract_key(score, abc)) >= 0
        /\ Len(extract_time_signature(score, abc)) >= 0
        /\ extract_tempo(score, abc) \in Nat

\* C12 as stated: each of title, key, time signature and tempo is the
\* engine's when the engine supplies one, else the header's, else the default
\* ("Untitled", "C", "4/4", 120); a missing header does not stop the parse.
C12_EngineFirstAllFour ==
    /\ ExtractionCompletes
    /\ Extracted =>
         /\ EngineHeaderDefault
         /\ score.title # <<>> => tune.title = score.title[1]
         /\ score.title = <<>> => TitleFromHeader

\* C12 amended: key, time signature and tempo are the engine's when the
\* engine supplies one, else the header's, else the default ("C", "4/4",
\* 120); the title is the T: header's value, whatever the engine read, else
\* "Untitled"; a missing header does not stop the parse.
C12_MetadataFallback ==
    /\ ExtractionCompletes
    /\ Extracted => (EngineHeaderDefault /\ TitleFromHeader)

C12_Witness ==
    /\ Extracted
    /\ score.title # <<>>
    /\ EngineFirst({"KeySignature", "Key"}) = <<>>
    /\ EngineFirst({"TimeSignature"}) # <<>>
    /\ EngineFirst({"MetronomeMark"}) = <<>>
    /\ HeaderValues(abc, "T") = <<>>
    /\ HeaderValues(abc, "K") = << <<" ", "A", "m">> >>
    /\ HeaderValues(abc, "Q") = <<>>
    /\ tune = [title |-> Untitled, key |-> <<"A", "m">>,
               time_signature |-> <<"3", "/", "4">>, default_tempo |-> DefaultTempo]

----------------------------------------------------------------------------
(* The assigner followed by the expander (lines 37 and 40 of parse_abc) *)

\* sections = _expand_playback_notes(sections), on what the assigner returned
ExpandAssigned ==
    /\ pc = "assigned"
    /\ expanded' = expand_playback_notes(sections)
    /\ pc' = "expanded"
    /\ UNCHANGED <<abc, section_info, all_notes, time_sig, section_beat_ranges,
                   sections, walk, score, tune, tune_has_pickup, check_orders,
                   tunes, tune_list_cache, tune_files, requests>>

NextPipeline == AssignNotes \/ AssignRaises \/ ExpandAssigned

SpecPipeline == InitAssign /\ [][NextPipeline]_vars

\* C13: zero notes: with no note events and at least one boundary, assigning
\* and then expanding raises nothing and gives one section per boundary, in
\* order, with the boundary's name, start_measure, end_measure and repeat,
\* an empty notes list and an empty playback_notes list.
C13_ZeroNotes ==
    (all_notes = <<>> /\ section_info # <<>>) =>
        /\ pc # "assign_raised"
        /\ \A ts \in TimeSigs :
              ~assign_notes_to_sections(all_notes, section_info, ts).raised
        /\ Expanded =>
              /\ Len(expanded) = Len(section_info)
              /\ \A i \in 1..Len(section_info) :
                    /\ expanded[i].name = section_info[i].name
                    /\ expanded[i].start_measure = section_info[i].start_measure
                    /\ expanded[i].end_measure = section_info[i].end_measure
                    /\ expanded[i].repeat = section_info[i].repeat
                    /\ expanded[i].notes = <<>>
                    /\ expanded[i].playback_notes = <<>>

C13_Witness ==
    /\ Expanded
    /\ all_notes = <<>>
    /\ Len(section_info) = 3
    /\ section_info[2].repeat = 2
    /\ time_sig = <<"4", "/", "0">>
    /\ Len(expanded) = 3
    /\ expanded[3].name = "C1"
    /\ expanded[2].repeat = 2
    /\ expanded[2].playback_notes = <<>>

\* C14: totality: with at least one boundary and at least one note event,
\* assigning and then expanding raises nothing, whatever the time-signature
\* string is.
C14_Totality ==
    (all_notes # <<>> /\ section_info # <<>>) => pc # "assign_raised"

----------------------------------------------------------------------------
(* Properties of the passes of the playback expander *)

\* the sections of the pickup splice scenario: played twice, two notes, the
\* first of them half a beat in
IsSpliceScenario(section) ==
    /\ section.repeat = 2
    /\ Len(section.notes) = 2
    /\ 2 * section.notes[1].start_time = TicksPerBeat

\* C15 as stated: in the splice scenario the second pass leaves out the
\* pickup note and begins at the first pass's section_duration minus the
\* skip threshold.
C15_SecondPassAtDurationMinusSkip ==
    Expanded =>
        \A k \in 1..Len(sections) :
            IsSpliceScenario(sections[k]) =>
                LET notes == sections[k].notes
                    played == expanded[k].playback_notes
                IN /\ Len(played) = 3
                   /\ played[3].pitch = notes[2].pitch
                   /\ played[3].start_time =
                         SectionDuration(notes) - FirstFullBeat(notes)

\* C15 amended: in the splice scenario, when the second note starts at beat 1
\* or later, the second pass leaves out the pickup note and begins at the
\* first pass's section_duration: the note at the skip threshold is played
\* at exactly section_duration.
C15_SecondPassAtDuration ==
    Expanded =>
        \A k \in 1..Len(sections) :
            (/\ IsSpliceScenario(sections[k])
             /\ sections[k].notes[2].start_time >= TicksPerBeat) =>
                LET notes == sections[k].notes
                    played == expanded[k].playback_notes
                IN /\ Len(played) = 3
                   /\ played[1] = notes[1]
                   /\ played[2] = notes[2]
                   /\ played[3] = [pitch |-> notes[2].pitch,
                                   duration |-> notes[2].duration,
                                   start_time |-> SectionDuration(notes)]

C15_Witness ==
    /\ Expanded
    /\ IsSpliceScenario(sections[1])
    /\ sections[1].notes[2].start_time = 2
    /\ sections[1].notes[2].duration = 2
    /\ Len(expanded[1].playback_notes) = 3
    /\ expanded[1].playback_notes[3].start_time = 4

\* C16: monotone playback timeline: for a section played at least once whose
\* notes are in non-decreasing onset order with positive durations, the
\* start_times of playback_notes never decrease along the list, within a pass
\* and from one pass to the next, with or without a pickup.
C16_MonotonePlayback ==
    Expanded =>
        \A k \in 1..Len(sections) :
            (/\ sections[k].repeat >= 1
             /\ \A j \in 1..Len(sections[k].notes) : sections[k].notes[j].duration > 0
             /\ \A j \in 1..(Len(sections[k].notes) - 1) :
                   sections[k].notes[j].start_time <= sections[k].notes[j + 1].start_time)
            => \A j \in 1..(Len(expanded[k].playback_notes) - 1) :
                   expanded[k].playback_notes[j].start_time
                     <= expanded[k].playback_notes[j + 1].start_time

C16_Witness ==
    /\ Expanded
    /\ sections[1].repeat = 3
    /\ Len(sections[1].notes) = 2
    /\ ExpanderHasPickup(sections[1].notes)
    /\ sections[1].notes[2].start_time = TicksPerBeat
    /\ Len(expanded[1].playback_notes) = 4
    /\ expanded[1].playback_notes[2].start_time < expanded[1].playback_notes[3].start_time
    /\ expanded[1].playback_notes[3].start_time < expanded[1].playback_notes[4].start_time

\* the <bpm> of a header value <note-length>=<bpm>: the number after the "="
BpmOf(v) ==
    LET eq == CHOOSE j \in 1..Len(v) : v[j] = "="
    IN IntOf(SubSeq(v, eq + 1, Len(v)))

\* a header value of the form <note-length>=<bpm>, such as 1/4=120
IsNoteLengthBpm(v) ==
    \E j \in 2..(Len(v) - 1) :
        /\ v[j] = "="
        /\ \A k \in (j + 1)..Len(v) : IsDigit(v[k])
        /\ \A k \in 1..(j - 1) : IsDigit(v[k]) \/ v[k] = "/"

\* C17: tempo extraction: when the first Q: header reads <note-length>=<bpm>,
\* default_tempo is <bpm>, both when the engine supplies a metronome mark
\* (of that number) and when the value comes from the Q: header; and
\* default_tempo is always a positive integer.
C17_TempoExtraction ==
    Extracted =>
        LET qv == HeaderValues(abc, "Q")
            q == EngineFirst({"MetronomeMark"})
        IN /\ tune.default_tempo \in Nat \ {0}
           /\ (qv # <<>> /\ IsNoteLengthBpm(qv[1])) =>
                 /\ (q # <<>> /\ q[1].number_halves = 2 * BpmOf(qv[1]))
                       => tune.default_tempo = BpmOf(qv[1])
                 /\ q = <<>> => tune.default_tempo = BpmOf(qv[1])

----------------------------------------------------------------------------
(* Properties of the repeat-marker walk, token by token *)

\* the loop is about to take tokens[walk.i]
AtToken == pc = "walk" /\ walk.i <= Len(walk.tokens)

\* how many of the tokens before the i-th are one of the given tokens
CountBefore(tokens, i, toks) ==
    Cardinality({k \in 1..(i - 1) : Strip(tokens[k]) \in toks})

\* the section a step on an end-repeat token has just appended
JustClosed == walk'.locals.sections[Len(walk'.locals.sections)]

\* C18 as stated: the measure counter starts at 1 and goes up by one on every
\* barline-family token (|, ||, |:, :|, :|:, :||:); the section an end-repeat
\* token closes ends at 1 + the number of barline-family tokens before that
\* token and starts at the section-start pointer of that moment.
C18_CountsEveryBarlineToken ==
    [][AtToken =>
        LET n == CountBefore(walk.tokens, walk.i, BarlineTokens) IN
        /\ walk.locals.current_measure = 1 + n
        /\ Strip(walk.tokens[walk.i]) \in EndTokens =>
              /\ Len(walk'.locals.sections) = Len(walk.locals.sections) + 1
              /\ JustClosed.end_measure = 1 + n
              /\ JustClosed.start_measure = walk.locals.section_start_measure
      ]_vars

\* C18 amended: the measure counter starts at 1 and goes up by one on every
\* barline-family token except the start-repeat token |: (that is on |, ||,
\* :|, :|: and :||:); the section an end-repeat token closes ends at 1 + the
\* number of such tokens before that token and starts at the section-start
\* pointer of that moment.
C18_CountsAllButStartToken ==
    [][AtToken =>
        LET n == CountBefore(walk.tokens, walk.i, BarlineTokens \ {TokStart}) IN
        /\ walk.locals.current_measure = 1 + n
        /\ Strip(walk.tokens[walk.i]) \in EndTokens =>
              /\ Len(walk'.locals.sections) = Len(walk.locals.sections) + 1
              /\ JustClosed.end_measure = 1 + n
              /\ JustClosed.start_measure = walk.locals.section_start_measure
      ]_vars

C18_Witness ==
    /\ pc = "walk"
    /\ CountBefore(walk.tokens, walk.i, {TokStart}) = 2
    /\ CountBefore(walk.tokens, walk.i, {TokBar, TokDouble}) = 1
    /\ CountBefore(walk.tokens, walk.i, EndTokens) = 2
    /\ Len(walk.locals.sections) = 2
    /\ walk.locals.sections[1].start_measure = 1
    /\ walk.locals.sections[1].end_measure = 2
    /\ walk.locals.sections[2].start_measure = 3
    /\ walk.locals.sections[2].end_measure = 3
    /\ walk.locals.current_measure = 4

\* the place of the j-th end-repeat token among the tokens
EndTokenIndex(tokens, j) ==
    CHOOSE e \in 1..Len(tokens) :
        /\ Strip(tokens[e]) \in EndTokens
        /\ CountBefore(tokens, e, EndTokens) = j - 1

\* there is something other than blanks between the e-th token and the next
\* barline-family token (or the end of the tokens)
ContentFollows(tokens, e) ==
    \E k \in (e + 1)..Len(tokens) :
        /\ Strip(tokens[k]) # <<>>
        /\ \A h \in (e + 1)..k : Strip(tokens[h]) \notin BarlineTokens

\* C19: for every section closed by an end-repeat token, of whichever form
\* (:|, :|: or :||:), next_has_pickup is true exactly when there is musical
\* content between that token and the next barline-family token.
C19_NextHasPickup ==
    pc \in {"walk", "detected"} =>
        \A j \in 1..Len(walk.locals.sections) :
            walk.locals.sections[j].next_has_pickup
              <=> ContentFollows(walk.tokens, EndTokenIndex(walk.tokens, j))

\* the i-th token is the first |: since an end-repeat token
FirstStartSinceClose(tokens, i) ==
    \E e \in 1..(i - 1) :
        /\ Strip(tokens[e]) \in EndTokens
        /\ \A k \in (e + 1)..(i - 1) : Strip(tokens[k]) \notin EndTokens \cup {TokStart}

\* the i-th token comes after an end-repeat token with no barline-family
\* token in between
RightAfterClose(tokens, i) ==
    \E e \in 1..(i - 1) :
        /\ Strip(tokens[e]) \in EndTokens
        /\ \A k \in (e + 1)..(i - 1) : Strip(tokens[k]) \notin BarlineTokens

LastClosed == walk.locals.sections[Len(walk.locals.sections)]

\* C20 as stated: a |: right after a just-closed section leaves the
\* section-start pointer at the closed section's end_measure + 1; every other
\* |:, also one that comes after a closed section and further barlines, sets
\* the pointer to the measure counter.
C20_StartTokenRightAfterClose ==
    [][(AtToken /\ Strip(walk.tokens[walk.i]) = TokStart) =>
          IF RightAfterClose(walk.tokens, walk.i)
          THEN walk'.locals.section_start_measure = LastClosed.end_measure + 1
          ELSE walk'.locals.section_start_measure = walk.locals.current_measure
      ]_vars

\* C20 amended: the first |: after a closed section, whether or not | or ||
\* tokens come in between, leaves the section-start pointer at the closed
\* section's end_measure + 1; every other |: sets the pointer to the
\* measure counter.
C20_FirstStartTokenAfterClose ==
    [][(AtToken /\ Strip(walk.tokens[walk.i]) = TokStart) =>
          IF FirstStartSinceClose(walk.tokens, walk.i)
          THEN walk'.locals.section_start_measure = LastClosed.end_measure + 1
          ELSE walk'.locals.section_start_measure = walk.locals.current_measure
      ]_vars

C20_Witness ==
    /\ pc = "walk"
    /\ Len(walk.locals.sections) = 1
    /\ CountBefore(walk.tokens, walk.i, {TokBar}) = 2
    /\ CountBefore(walk.tokens, walk.i, {TokStart}) = 2
    /\ Strip(walk.tokens[walk.i - 1]) = TokStart
    /\ walk.locals.sections[1].end_measure = 1
    /\ walk.locals.current_measure = 4
    /\ walk.locals.section_start_measure = 4

----------------------------------------------------------------------------
(* Properties of the cut points of _assign_notes_to_sections *)

\* the note events of measure m, and the earliest start among them
NotesOfMeasure(m) == {k \in 1..Len(all_notes) : all_notes[k].measure = m}
MeasureHasNote(m) == NotesOfMeasure(m) # {}
EarliestStart(m) == SetMin({all_notes[k].start_time : k \in NotesOfMeasure(m)})

\* a time signature written numerator/denominator, with a denominator > 0
IsRatioTimeSig(ts) ==
    LET parts == SplitSlash(ts)
    IN /\ Len(parts) = 2
       /\ IsIntLiteral(parts[1]) /\ IsIntLiteral(parts[2])
       /\ IntOf(parts[2]) > 0

\* numerator * 4 / denominator beats, in ticks; 4 beats for any other string
BeatsPerMeasureOf(ts) ==
    IF IsRatioTimeSig(ts)
    THEN Rat(IntOf(SplitSlash(ts)[1]) * 4 * TicksPerBeat, IntOf(SplitSlash(ts)[2]))
    ELSE RatOf(DefaultBeatsPerMeasure * TicksPerBeat)

\* measures 0 and 1 both have notes and measure 0 spans less than a measure
PickupExists ==
    /\ MeasureHasNote(0)
    /\ MeasureHasNote(1)
    /\ RatLess(RatOf(EarliestStart(1) - EarliestStart(0)), BeatsPerMeasureOf(time_sig))

\* the candidate measure of the cut after boundary i, and the probes around it
Candidate(i) ==
    IF PickupExists THEN section_info[i + 1].start_measure
    ELSE section_info[i + 1].start_measure - 1
Probes(i) == <<Candidate(i), Candidate(i) - 1, Candidate(i) + 1>>
ProbeHits(i) == {k \in 1..3 : MeasureHasNote(Probes(i)[k])}

\* total_beats * (i + 1) / num_sections, for the code's i = i - 1
EvenSplit(i) ==
    Rat(SetMax({all_notes[k].start_time + all_notes[k].duration :
                   k \in 1..Len(all_notes)}) * i,
        Len(section_info))

\* C21 as stated: for every non-final section, end_beat is the earliest
\* start_time of the first of the measures candidate, candidate - 1,
\* candidate + 1 (in that order) that has a note, and end_beat equals
\* total_beats * (i + 1) / num_sections if and only if none of the three has
\* a note.
C21_EvenSplitIffNoProbeHits ==
    AssignedNonEmpty =>
        \A i \in 1..(Len(section_info) - 1) :
            LET end_beat == section_beat_ranges[i][2] IN
            /\ ProbeHits(i) # {} =>
                  end_beat = RatOf(EarliestStart(Probes(i)[SetMin(ProbeHits(i))]))
            /\ end_beat = EvenSplit(i) <=> ProbeHits(i) = {}

\* C21 amended: for every non-final section, end_beat is the earliest
\* start_time of the first of the measures candidate, candidate - 1,
\* candidate + 1 (in that order) that has a note, and it is
\* total_beats * (i + 1) / num_sections when none of the three has a note
\* (a measure that is found may start at that very beat).
C21_CutPointLookupOrder ==
    AssignedNonEmpty =>
        \A i \in 1..(Len(section_info) - 1) :
            LET end_beat == section_beat_ranges[i][2] IN
            /\ ProbeHits(i) # {} =>
                  end_beat = RatOf(EarliestStart(Probes(i)[SetMin(ProbeHits(i))]))
            /\ ProbeHits(i) = {} => end_beat = EvenSplit(i)

\* the cut after the first section comes from the second probe, the cut after
\* the second from the even split
C21_Witness ==
    /\ AssignedNonEmpty
    /\ Len(section_info) = 3
    /\ ProbeHits(1) = {2}
    /\ section_beat_ranges[1][2] = <<1, 1>>
    /\ ProbeHits(2) = {}
    /\ section_beat_ranges[2][2] = EvenSplit(2)
    /\ section_beat_ranges[2][2] # section_beat_ranges[1][2]

\* C22: the tune is treated as having a pickup exactly when measures 0 and 1
\* both have notes and the earliest start of measure 1 minus that of measure 0
\* is less than beats_per_measure = numerator * 4 / denominator; the candidate
\* measure of the cut before section i + 1 is that section's start_measure
\* when there is a pickup and start_measure - 1 otherwise.
C22_PickupOffsetRule ==
    (AssignedNonEmpty /\ Len(section_info) >= 2 /\ IsRatioTimeSig(time_sig)) =>
        /\ tune_has_pickup <=>
              /\ MeasureHasNote(0)
              /\ MeasureHasNote(1)
              /\ LET parts == SplitSlash(time_sig) IN
                 (EarliestStart(1) - EarliestStart(0)) * IntOf(parts[2])
                     < IntOf(parts[1]) * 4 * TicksPerBeat
        /\ Len(check_orders) = Len(section_info) - 1
        /\ \A i \in 1..Len(check_orders) :
              check_orders[i][1] =
                  IF tune_has_pickup THEN section_info[i + 1].start_measure
                  ELSE section_info[i + 1].start_measure - 1

\* measure 0 spans exactly one measure of 1/8 (half a beat): no pickup, and
\* the candidate is the measure before the next section's start measure
C22_Witness ==
    /\ AssignedNonEmpty
    /\ Len(section_info) >= 2
    /\ time_sig = <<"1", "/", "8">>
    /\ MeasureHasNote(0) /\ MeasureHasNote(1)
    /\ EarliestStart(1) - EarliestStart(0) = 1
    /\ ~tune_has_pickup
    /\ check_orders[1][1] = section_info[2].start_measure - 1

----------------------------------------------------------------------------
(* Properties of the pickup detection and the unrolling of the expander *)

\* the number of notes of a section that pass r of the expander left out
SkippedInAll(k) ==
    sections[k].repeat * Len(sections[k].notes) - Len(expanded[k].playback_notes)

\* C23: a pickup is detected in a section only if its first note has
\* start_time > 0: notes are left out of a repetition only then; when the
\* first note starts at exactly beat 0 no note is skipped and each of the
\* repeat passes emits all the notes of the section, in their order.
C23_ExpanderPickupDetection ==
    Expanded =>
        \A k \in 1..Len(sections) :
            LET notes == sections[k].notes
                n == Len(notes)
                playback_notes == expanded[k].playback_notes
            IN (sections[k].repeat >= 1 /\ n > 0) =>
                /\ SkippedInAll(k) # 0 => notes[1].start_time > 0
                /\ notes[1].start_time = 0 =>
                      /\ Len(playback_notes) = sections[k].repeat * n
                      /\ \A r \in 0..(sections[k].repeat - 1) : \A j \in 1..n :
                            /\ playback_notes[r * n + j].pitch = notes[j].pitch
                            /\ playback_notes[r * n + j].duration = notes[j].duration

\* three passes over two notes before beat 1, the first of them at beat 0
C23_Witness ==
    /\ Expanded
    /\ sections[1].repeat = 3
    /\ Len(sections[1].notes) = 2
    /\ sections[1].notes[1].start_time = 0
    /\ sections[1].notes[2].start_time = 1
    /\ Len(expanded[1].playback_notes) = 6
    /\ expanded[1].playback_notes[5].pitch = sections[1].notes[1].pitch

\* D = max(start_time + duration) of a section's notes
PassLength(notes) ==
    SetMax({notes[j].start_time + notes[j].duration : j \in 1..Len(notes)})

\* s: the least start_time >= 1.0 when a pickup is detected (the first note
\* does not start at 0 and some note starts before beat 1) and such a note
\* exists, else 0
SkipThreshold(notes) ==
    LET detected == /\ notes[1].start_time > 0
                    /\ \E j \in 1..Len(notes) : notes[j].start_time < TicksPerBeat
        full == {j \in 1..Len(notes) : notes[j].start_time >= TicksPerBeat}
    IN IF detected /\ full # {}
       THEN SetMin({notes[j].start_time : j \in full})
       ELSE 0

\* C24: repetition unrolling, for repeat >= 2 and non-empty notes: pass 0
\* emits every note at its own start_time; pass r >= 1 emits exactly the notes
\* with start_time >= s, each at offset_r + start_time - s, where offset_1 = D
\* and offset_(r+1) = offset_r + D - s; so playback_notes has
\* len(notes) + (repeat - 1) * (number of notes with start_time >= s) entries.
C24_RepetitionUnrolling ==
    Expanded =>
        \A k \in 1..Len(sections) :
            (sections[k].repeat >= 2 /\ sections[k].notes # <<>>) =>
                LET notes == sections[k].notes
                    n == Len(notes)
                    D == PassLength(notes)
                    s == SkipThreshold(notes)
                    kept == SelectSeq(notes, LAMBDA x : x.start_time >= s)
                    m == Len(kept)
                    playback_notes == expanded[k].playback_notes
                IN /\ Len(playback_notes) = n + (sections[k].repeat - 1) * m
                   /\ \A j \in 1..n : playback_notes[j] = notes[j]
                   /\ \A r \in 1..(sections[k].repeat - 1) : \A j \in 1..m :
                         playback_notes[n + (r - 1) * m + j] =
                             [pitch |-> kept[j].pitch, duration |-> kept[j].duration,
                              start_time |-> D + (r - 1) * (D - s)
                                               + kept[j].start_time - s]

\* three passes over a pickup note at beat 0.5 and a note at beat 1: the
\* later passes hold the second note only, one (D - s) apart
C24_Witness ==
    /\ Expanded
    /\ sections[1].repeat = 3
    /\ Len(sections[1].notes) = 2
    /\ sections[1].notes[1].start_time = 1
    /\ sections[1].notes[2].start_time = 2
    /\ sections[1].notes[2].duration = 2
    /\ Len(expanded[1].playback_notes) = 4
    /\ expanded[1].playback_notes[3].start_time = 4
    /\ expanded[1].playback_notes[4].start_time = 6
    /\ expanded[1].playback_notes[4].pitch = sections[1].notes[2].pitch

\* C25: expand frame condition: the expander returns one output section per
\* input section, in the same order, each with the name, start_measure,
\* end_measure, repeat and notes of its input; only playback_notes is set.
C25_ExpandFrame ==
    Expanded =>
        /\ Len(expanded) = Len(sections)
        /\ \A k \in 1..Len(sections) :
              /\ DOMAIN expanded[k] = DOMAIN sections[k] \cup {"playback_notes"}
              /\ \A f \in DOMAIN sections[k] : expanded[k][f] = sections[k][f]

\* an unrepeated first section and a second section unrolled twice
C25_Witness ==
    /\ Expanded
    /\ Len(sections) = 2
    /\ sections[1].repeat = 1
    /\ sections[2].repeat = 2
    /\ Len(sections[2].notes) = 2
    /\ Len(expanded[2].playback_notes) = 4
    /\ expanded[2].name = "B"
    /\ expanded[2].repeat = 2
    /\ expanded[2].notes = sections[2].notes
    /\ expanded[1].name = "A"

----------------------------------------------------------------------------
(* The next_has_pickup flag and the assigner *)

\* the boundaries with their next_has_pickup values replaced by flags
WithPickupFlags(info, flags) ==
    [i \in 1..Len(info) |->
        [f \in DOMAIN info[i] \cup {"next_has_pickup"} |->
            IF f = "next_has_pickup" THEN flags[i] ELSE info[i][f]]]

\* C26: the next_has_pickup flag does not influence note assignment: a run of
\* the assigner on the same note events and time signature and on boundaries
\* that differ only in their next_has_pickup values computes the same beat
\* ranges and returns the same sections.
C26_PickupFlagNonInterference ==
    (pc = "assigned" /\ section_info # <<>>) =>
        \A flags \in [1..Len(section_info) -> BOOLEAN] :
            LET other == assign_notes_to_sections(
                             all_notes, WithPickupFlags(section_info, flags), time_sig)
            IN /\ ~other.raised
               /\ other.ranges = section_beat_ranges
               /\ other.sections = sections

\* flagged boundaries, a cut found in the measure lookup, notes on both sides
C26_Witness ==
    /\ AssignedNonEmpty
    /\ Len(section_info) = 2
    /\ GetNextHasPickup(section_info[1])
    /\ ProbeHits(1) = {1, 2}
    /\ section_beat_ranges[1][2] = <<2, 1>>
    /\ Len(sections[1].notes) = 1
    /\ Len(sections[2].notes) = 1

----------------------------------------------------------------------------
(* Properties of the assigner followed by the expander *)

\* C27: in the pipeline (the assigner on non-empty boundaries, then the
\* expander) the expander never detects a pickup: every non-empty section
\* that leaves the assigner has its first note at start_time 0, so a section
\* with repeat r >= 2 gets exactly r * len(notes) playback notes, pass k
\* (0 <= k < r) being the notes shifted by k * section_duration.
C27_NoPickupInPipeline ==
    (pc = "expanded" /\ section_info # <<>>) =>
        \A i \in 1..Len(sections) :
            LET notes == sections[i].notes
                n == Len(notes)
                r == sections[i].repeat
                playback_notes == expanded[i].playback_notes
            IN n > 0 =>
                /\ notes[1].start_time = 0
                /\ r >= 2 =>
                      /\ Len(playback_notes) = r * n
                      /\ \A k \in 0..(r - 1) : \A j \in 1..n :
                            playback_notes[k * n + j] =
                                [pitch |-> notes[j].pitch,
                                 duration |-> notes[j].duration,
                                 start_time |-> notes[j].start_time
                                                  + k * PassLength(notes)]

\* two note events given out of order, both after the cut, in a section that
\* is played twice
C27_Witness ==
    /\ pc = "expanded"
    /\ Len(section_info) = 2
    /\ Len(all_notes) = 2
    /\ all_notes[1].start_time = 2
    /\ all_notes[2].start_time = 1
    /\ sections[1].notes = <<>>
    /\ sections[2].repeat = 2
    /\ Len(expanded[2].playback_notes) = 4
    /\ expanded[2].playback_notes[1].start_time = 0
    /\ expanded[2].playback_notes[1].pitch = all_notes[2].pitch
    /\ expanded[2].playback_notes[2].start_time = 1

----------------------------------------------------------------------------
(* parse_abc from the detection of the sections on (lines 31-40): the text  *)
(* goes to detect_sections, the note events the engine found and the time   *)
(* signature go to the assigner with the boundaries detected, and the       *)
(* sections assigned go to the expander                                     *)

\* the note events of the engine: none, one note, a pickup and two measures
ParsedNoteLists ==
    { <<>>,
      TuneFrom(<<[duration |-> 2, measure_step |-> 1]>>, 1, 0, 0),
      TuneFrom(<<[duration |-> 1, measure_step |-> 0],
                 [duration |-> 2, measure_step |-> 1],
                 [duration |-> 2, measure_step |-> 1]>>, 1, 0, 0) }

InitParse ==
    /\ pc = "parse"
    /\ \E atoms \in SeqsUpTo(TextAtoms, MaxAtoms) : abc = Flatten(atoms)
    /\ section_info = NoSections
    /\ all_notes \in ParsedNoteLists
    /\ time_sig = NoTimeSig
    /\ section_beat_ranges = NoRanges
    /\ sections = NoSections
    /\ expanded = NoSections
    /\ walk = NoWalk
    /\ score = NoScore
    /\ tune = NoTune
    /\ tune_has_pickup = FALSE
    /\ check_orders = NoOrders
    /\ tunes = NoRows
    /\ tune_list_cache = None
    /\ tune_files = NoFiles
    /\ requests = 0

\* line 34: section_info = detect_sections(abc_content)
ParseDetect ==
    /\ pc = "parse"
    /\ section_info' = detect_sections(abc)
    /\ pc' = "parse_detected"
    /\ UNCHANGED <<abc, all_notes, time_sig, section_beat_ranges, sections, expanded,
                   walk, score, tune, tune_has_pickup, check_orders,
                   tunes, tune_list_cache, tune_files, requests>>

\* line 37: sections = _assign_notes_to_sections(all_notes, section_info, time_sig)
ParseAssign ==
    /\ pc = "parse_detected"
    /\ \E ts \in TimeSigs :
        LET r == assign_notes_to_sections(all_notes, section_info, ts) IN
        /\ ~r.raised
        /\ time_sig' = ts
        /\ section_beat_ranges' = r.ranges
        /\ tune_has_pickup' = r.has_pickup
        /\ check_orders' = r.check_orders
        /\ sections' = r.sections
    /\ pc' = "parse_assigned"
    /\ UNCHANGED <<abc, section_info, all_notes, expanded, walk, score, tune,
                   tunes, tune_list_cache, tune_files, requests>>

\* line 37 raises: parse_abc raises
ParseAssignRaises ==
    /\ pc = "parse_detected"
    /\ \E ts \in TimeSigs :
        /\ assign_notes_to_sections(all_notes, section_info, ts).raised
        /\ time_sig' = ts
    /\ pc' = "parse_raised"
    /\ UNCHANGED <<abc, section_info, all_notes, section_beat_ranges, sections,
                   expanded, walk, score, tune, tune_has_pickup, check_orders,
                   tunes, tune_list_cache, tune_files, requests>>

\* line 40: sections = _expand_playback_notes(sections)
ParseExpand ==
    /\ pc = "parse_assigned"
    /\ expanded' = expand_playback_notes(sections)
    /\ pc' = "parse_expanded"
    /\ UNCHANGED <<abc, section_info, all_notes, time_sig, section_beat_ranges,
                   sections, walk, score, tune, tune_has_pickup, check_orders,
                   tunes, tune_list_cache, tune_files, requests>>

NextParse == ParseDetect \/ ParseAssign \/ ParseAssignRaises \/ ParseExpand

SpecParse == InitParse /\ [][NextParse]_vars

----------------------------------------------------------------------------
(* Properties of parse_abc *)

\* C28: detect_sections never returns an empty list (at least 2 boundaries
\* from part markers, at least 1 from repeat markers, exactly 2 from the
\* fallback); so the empty-boundaries branch of the assigner is not taken
\* from parse_abc and no Tune of parse_abc has a section named "Full".
C28_NeverEmptyBoundaries ==
    /\ pc # "parse" =>
          /\ Len(section_info) >= 1
          /\ Len(part_matches(abc)) >= 2 => Len(section_info) >= 2
          /\ (Len(part_matches(abc)) < 2 /\ EndTokenCount(MusicOf(abc)) = 0)
                => Len(section_info) = 2
    /\ pc \in {"parse_assigned", "parse_expanded"} =>
          /\ Len(sections) = Len(section_info)
          /\ \A i \in 1..Len(sections) : sections[i].name # "Full"
    /\ pc = "parse_expanded" =>
          \A i \in 1..Len(expanded) : expanded[i].name # "Full"

\* a text with nothing in it that marks a section still gets the two
\* boundaries of the half split, and its note goes to section A
C28_Witness ==
    /\ pc = "parse_expanded"
    /\ abc = <<"d">>
    /\ Len(all_notes) = 1
    /\ Len(section_info) = 2
    /\ Len(expanded) = 2
    /\ expanded[1].name = "A"
    /\ Len(expanded[1].notes) = 1

\* C29: boundary well-formedness: whichever strategy is used, each boundary
\* detect_sections returns has 1 <= start_measure <= end_measure and repeat
\* 1 or 2, and boundaries never overlap: each starts strictly after the end
\* of the one before it.
C29_BoundaryWellFormed ==
    pc = "detected" =>
        /\ \A i \in 1..Len(section_info) :
              /\ 1 <= section_info[i].start_measure
              /\ section_info[i].start_measure <= section_info[i].end_measure
              /\ section_info[i].repeat \in {1, 2}
        /\ \A i \in 2..Len(section_info) :
              section_info[i].start_measure > section_info[i - 1].end_measure

\* two sections from repeat markers, the second of them two measures long
C29_Witness ==
    /\ pc = "detected"
    /\ Len(part_matches(abc)) < 2
    /\ Len(section_info) = 2
    /\ section_info[1].start_measure = 1
    /\ section_info[1].end_measure = 1
    /\ section_info[2].start_measure = 2
    /\ section_info[2].end_measure = 3
    /\ section_info[2].repeat = 2

----------------------------------------------------------------------------
(* The table tunes (backend/database.py) and the tune-list cache of the     *)
(* request handlers (backend/api.py).  A handler runs from start to end     *)
(* without giving way to another one once it touches the database: there is *)
(* no await between its database calls and its last statement.              *)

\* the number of requests of a run
MaxRequests == 3

\* tune ids and titles: a base and a version; version 1 is the plain name,
\* version n > 1 the name with the suffix _vn (ids) or " Vn" (titles)
IdBases == <<"a", "b">>
TitleBases == <<"Air", "Jig", "Reel">>
Named(base, v) == [base |-> base, v |-> v]

\* ABC contents: the title and key parse_abc reads from them, whether
\* parse_abc raises on them, whether they are longer than
\* MAX_ABC_CONTENT_LENGTH, and the risk assess_abc_file gives them
AbcJigInD ==
    [title |-> "Jig", key |-> "D", parses |-> TRUE, too_long |-> FALSE, risk |-> "LOW"]
AbcReelInG ==
    [title |-> "Reel", key |-> "G", parses |-> TRUE, too_long |-> FALSE, risk |-> "HIGH"]
AbcUnparsable ==
    [title |-> "Jig", key |-> "D", parses |-> FALSE, too_long |-> FALSE, risk |-> "MEDIUM"]
AbcTooLong ==
    [title |-> "Air", key |-> "D", parses |-> TRUE, too_long |-> TRUE, risk |-> "MEDIUM"]

\* the result of a database call: the exception it raised ("none" when it
\* returned), whether it returned None, and the table afterwards
Returned(table) == [error |-> "none", found |-> TRUE, table |-> table]
ReturnedNone(table) == [error |-> "none", found |-> FALSE, table |-> table]
Raised(error, table) == [error |-> error, found |-> FALSE, table |-> table]

WithRow(table, tune_id, row) ==
    [x \in DOMAIN table \cup {tune_id} |-> IF x = tune_id THEN row ELSE table[x]]

\* insert_tune: _validate_abc_content, then INSERT (tune_id is UNIQUE)
insert_tune(table, tune_id, title, abc_content, source_url, quality) ==
    IF abc_content.too_long THEN Raised("ValueError", table)
    ELSE IF tune_id \in DOMAIN table THEN Raised("IntegrityError", table)
    ELSE Returned(WithRow(table, tune_id,
             [title |-> title, source_url |-> source_url, quality |-> quality,
              rating |-> <<>>, rating_count |-> 0, version |-> 1,
              abc_content |-> abc_content]))

\* the least version >= 2 of a base that no name has yet
NextFreeVersion(names, base) ==
    CHOOSE v \in 2..(Cardinality(names) + 2) :
        /\ Named(base, v) \notin names
        /\ \A w \in 2..(v - 1) : Named(base, w) \in names

get_versioned_title(table, title) ==
    LET existing_titles == {table[x].title : x \in DOMAIN table}
    IN IF title \notin existing_titles THEN title
       ELSE Named(title.base, NextFreeVersion(existing_titles, title.base))

get_versioned_tune_id(table, tune_id) ==
    IF tune_id \notin DOMAIN table THEN tune_id
    ELSE Named(tune_id.base, NextFreeVersion(DOMAIN table, tune_id.base))

insert_tune_auto_version(table, tune_id, title, abc_content, source_url, quality) ==
    insert_tune(table, get_versioned_tune_id(table, tune_id),
                get_versioned_title(table, title), abc_content, source_url, quality)

\* update_tune: the arguments that are not None (<<>>) replace the columns
Updated(old, new) == IF new = <<>> THEN old ELSE new[1]

update_tune(table, tune_id, title, abc_content, source_url, quality, increment_version) ==
    IF abc_content # <<>> /\ abc_content[1].too_long THEN Raised("ValueError", table)
    ELSE IF tune_id \notin DOMAIN table THEN ReturnedNone(table)
    ELSE LET row == table[tune_id] IN
         Returned(WithRow(table, tune_id,
             [title |-> Updated(row.title, title),
              source_url |-> IF source_url = <<>> THEN row.source_url ELSE source_url,
              quality |-> Updated(row.quality, quality),
              rating |-> row.rating, rating_count |-> row.rating_count,
              version |-> IF increment_version THEN row.version + 1 ELSE row.version,
              abc_content |-> Updated(row.abc_content, abc_content)]))

\* add_rating: the running average, kept as a fraction
add_rating(table, tune_id, value) ==
    IF ~(0 <= value /\ value <= 5) THEN Raised("ValueError", table)
    ELSE IF tune_id \notin DOMAIN table THEN ReturnedNone(table)
    ELSE LET row == table[tune_id]
             new_count == row.rating_count + 1
             new_rating ==
                 IF row.rating = <<>> THEN RatOf(value)
                 ELSE Rat(row.rating[1][1] * row.rating_count + value * row.rating[1][2],
                          new_count * row.rating[1][2])
         IN Returned(WithRow(table, tune_id,
                [row EXCEPT !.rating = <<new_rating>>, !.rating_count = new_count]))

\* the quality sync_from_files derives from the risk of a file
QualityOfRisk(abc_content) ==
    IF abc_content.risk = "LOW" THEN "high"
    ELSE IF abc_content.risk = "HIGH" THEN "low"
    ELSE "medium"

\* sync_from_files: the loop over the sorted files, from the k-th on; an
\* exception of insert_tune or update_tune ends it, the rows written for the
\* files before stay committed
RECURSIVE SyncFrom(_, _, _)
SyncFrom(files, k, table) ==
    IF k > Len(files) THEN Returned(table)
    ELSE LET tune_id == Named(files[k].stem, 1)
             abc_content == files[k].abc_content
             title == Named(abc_content.title, 1)
             quality == QualityOfRisk(abc_content)
             r == IF tune_id \in DOMAIN table
                  THEN IF table[tune_id].abc_content = abc_content
                       THEN Returned(table)
                       ELSE update_tune(table, tune_id, <<title>>, <<abc_content>>,
                                        <<>>, <<quality>>, TRUE)
                  ELSE insert_tune(table, tune_id, title, abc_content, <<>>, quality)
         IN IF r.error # "none" THEN r ELSE SyncFrom(files, k + 1, r.table)

sync_from_files(table, files) == SyncFrom(files, 1, table)

\* get_all_tunes: SELECT * FROM tunes ORDER BY title (rows of one title are
\* taken in the order of their ids)
RankIn(seq, x) == CHOOSE k \in 1..Len(seq) : seq[k] = x

NameBefore(bases, x, y) ==
    \/ RankIn(bases, x.base) < RankIn(bases, y.base)
    \/ x.base = y.base /\ x.v < y.v

RowBefore(table, x, y) ==
    \/ NameBefore(TitleBases, table[x].title, table[y].title)
    \/ table[x].title = table[y].title /\ NameBefore(IdBases, x, y)

RECURSIVE OrderByTitle(_, _)
OrderByTitle(table, ids) ==
    IF ids = {} THEN <<>>
    ELSE LET first == CHOOSE x \in ids : \A y \in ids \ {x} : RowBefore(table, x, y)
         IN <<first>> \o OrderByTitle(table, ids \ {first})

\* _record_to_tune_info: the key comes from parsing the ABC, "?" if that fails
record_to_tune_info(tune_id, row) ==
    [id |-> tune_id, title |-> row.title,
     key |-> IF row.abc_content.parses THEN row.abc_content.key ELSE "?",
     source_url |-> row.source_url, quality |-> row.quality,
     rating |-> row.rating, rating_count |-> row.rating_count,
     version |-> row.version]

\* [_record_to_tune_info(r) for r in db.get_all_tunes()]
TuneInfoList(table) ==
    LET order == OrderByTitle(table, DOMAIN table)
    IN [k \in 1..Len(order) |-> record_to_tune_info(order[k], table[order[k]])]

\* _invalidate_tune_cache() after a database call that returned; a handler
\* that raises before that line leaves the cache as it is
CacheAfter(r) == IF r.error = "none" /\ r.found THEN None ELSE tune_list_cache

----------------------------------------------------------------------------
(* The requests *)

\* the directories sync_from_files may find: at most a.abc and b.abc
FileContents == {AbcJigInD, AbcReelInG, AbcTooLong}
Directories ==
    {<<>>}
    \cup { <<[stem |-> "a", abc_content |-> c]>> : c \in FileContents }
    \cup { <<[stem |-> "a", abc_content |-> c], [stem |-> "b", abc_content |-> d]>> :
             c \in FileContents, d \in FileContents }

\* the ids a request may name, the values it may carry
PathIds == {Named("a", 1), Named("a", 2), Named("b", 1)}
RequestContents == {AbcJigInD, AbcTooLong}
QualityValues == {<<>>, <<"high">>, <<"best">>}
RatingValues == {5, 6}
Urls == { [scheme |-> "https", netloc |-> "one.example", stem |-> "a"],
          [scheme |-> "https", netloc |-> "two.example", stem |-> "a"],
          [scheme |-> "ftp", netloc |-> "one.example", stem |-> "a"] }
\* what the GET of a URL gives: an error, or a text
Responses == {<<>>, <<AbcJigInD>>, <<AbcReelInG>>, <<AbcUnparsable>>, <<AbcTooLong>>}

InitApi ==
    /\ pc = "api"
    /\ abc = <<>>
    /\ section_info = NoSections
    /\ all_notes = NoNotes
    /\ time_sig = NoTimeSig
    /\ section_beat_ranges = NoRanges
    /\ sections = NoSections
    /\ expanded = NoSections
    /\ walk = NoWalk
    /\ score = NoScore
    /\ tune = NoTune
    /\ tune_has_pickup = FALSE
    /\ check_orders = NoOrders
    /\ tunes = NoRows
    /\ tune_list_cache = None
    /\ tune_files \in Directories
    /\ requests = 0

\* GET /tunes: _get_cached_tune_list
ListTunes ==
    /\ pc = "api" /\ requests < MaxRequests
    /\ tune_list_cache' = IF tune_list_cache = None THEN <<TuneInfoList(tunes)>>
                          ELSE tune_list_cache
    /\ requests' = requests + 1
    /\ UNCHANGED <<pc, abc, section_info, all_notes, time_sig, section_beat_ranges,
                   sections, expanded, walk, score, tune, tune_has_pickup,
                   check_orders, tunes, tune_files>>

\* POST /tunes
CreateTune ==
    /\ pc = "api" /\ requests < MaxRequests
    /\ \E base \in {"a", "b"}, abc_content \in RequestContents, auto_version \in BOOLEAN :
         LET tune_id == Named(base, 1)
             title == Named("Jig", 1)
             r == IF auto_version
                  THEN insert_tune_auto_version(tunes, tune_id, title, abc_content,
                                                <<>>, "medium")
                  ELSE IF tune_id \in DOMAIN tunes THEN Raised("409", tunes)
                  ELSE insert_tune(tunes, tune_id, title, abc_content, <<>>, "medium")
         IN /\ tunes' = r.table
            /\ tune_list_cache' = CacheAfter(r)
    /\ requests' = requests + 1
    /\ UNCHANGED <<pc, abc, section_info, all_notes, time_sig, section_beat_ranges,
                   sections, expanded, walk, score, tune, tune_has_pickup,
                   check_orders, tune_files>>

\* PATCH /tunes/{tune_id}/metadata
UpdateTuneMetadata ==
    /\ pc = "api" /\ requests < MaxRequests
    /\ \E tune_id \in PathIds, quality \in QualityValues, url \in Urls,
          with_url \in BOOLEAN :
         LET r == IF tune_id \notin DOMAIN tunes THEN Raised("404", tunes)
                  ELSE IF quality # <<>> /\ quality[1] \notin {"high", "medium", "low"}
                  THEN Raised("400", tunes)
                  ELSE update_tune(tunes, tune_id, <<>>, <<>>,
                                   IF with_url THEN <<url>> ELSE <<>>, quality, FALSE)
         IN /\ tunes' = r.table
            /\ tune_list_cache' = CacheAfter(r)
    /\ requests' = requests + 1
    /\ UNCHANGED <<pc, abc, section_info, all_notes, time_sig, section_beat_ranges,
                   sections, expanded, walk, score, tune, tune_has_pickup,
                   check_orders, tune_files>>

\* POST /tunes/{tune_id}/rate
RateTune ==
    /\ pc = "api" /\ requests < MaxRequests
    /\ \E tune_id \in PathIds, value \in RatingValues :
         LET r == add_rating(tunes, tune_id, value)
         IN /\ tunes' = r.table
            /\ tune_list_cache' = CacheAfter(r)
    /\ requests' = requests + 1
    /\ UNCHANGED <<pc, abc, section_info, all_notes, time_sig, section_beat_ranges,
                   sections, expanded, walk, score, tune, tune_has_pickup,
                   check_orders, tune_files>>

\* POST /tunes/sync: db.sync_from_files(), then _invalidate_tune_cache()
SyncTunes ==
    /\ pc = "api" /\ requests < MaxRequests
    /\ LET r == sync_from_files(tunes, tune_files)
       IN /\ tunes' = r.table
          /\ tune_list_cache' = CacheAfter(r)
    /\ requests' = requests + 1
    /\ UNCHANGED <<pc, abc, section_info, all_notes, time_sig, section_beat_ranges,
                   sections, expanded, walk, score, tune, tune_has_pickup,
                   check_orders, tune_files>>

\* POST /tunes/fetch-url
FetchTuneFromUrl ==
    /\ pc = "api" /\ requests < MaxRequests
    /\ \E url \in Urls, response \in Responses :
         LET tune_id == Named(url.stem, 1)
             r == IF url.scheme \notin {"http", "https"} THEN Raised("400", tunes)
                  ELSE IF response = <<>> THEN Raised("fetch", tunes)
                  ELSE IF ~response[1].parses THEN Raised("400", tunes)
                  ELSE LET abc_content == response[1]
                           title == Named(abc_content.title, 1)
                       IN IF tune_id \in DOMAIN tunes
                          THEN IF tunes[tune_id].source_url = <<url>>
                               THEN update_tune(tunes, tune_id, <<title>>, <<abc_content>>,
                                                <<url>>, <<>>, TRUE)
                               ELSE insert_tune_auto_version(tunes, tune_id, title,
                                        abc_content, <<url>>, "medium")
                          ELSE insert_tune(tunes, tune_id, title, abc_content,
                                           <<url>>, "medium")
         IN /\ tunes' = r.table
            /\ tune_list_cache' = CacheAfter(r)
    /\ requests' = requests + 1
    /\ UNCHANGED <<pc, abc, section_info, all_notes, time_sig, section_beat_ranges,
                   sections, expanded, walk, score, tune, tune_has_pickup,
                   check_orders, tune_files>>

NextApi ==
    \/ ListTunes
    \/ CreateTune
    \/ UpdateTuneMetadata
    \/ RateTune
    \/ SyncTunes
    \/ FetchTuneFromUrl

SpecApi == InitApi /\ [][NextApi]_vars

----------------------------------------------------------------------------
(* Properties of the tune-list cache *)

\* C30: tune-list cache coherence: after any sequence of requests (list,
\* create, metadata update, rate, sync, fetch-url), successful or failing, the
\* cache is either empty (None) or equal to the list derived from the current
\* contents of the database.
C30_CacheCoherence ==
    pc = "api" =>
        \/ tune_list_cache = None
        \/ tune_list_cache = <<TuneInfoList(tunes)>>

====
